---- MODULE Spec2Model ----
(***************************************************************************)
(* Model of the connection engine of the VPN client.                       *)
(*                                                                         *)
(* Part 1: AutoConnSettingsPolicy (autoconnsettingspolicy.cpp), the        *)
(* connection attempt policy of the automatic connection mode: the plan    *)
(* built by the constructor, the cursor moved by putFailedConnection,      *)
(* reset, and saveCurrentSuccessfullConnectionSettings, together with the  *)
(* process-wide failedIkev2Counter_ and the durable setting                *)
(* "successConnectionProtocol".                                            *)
(***************************************************************************)
EXTENDS Integers, Sequences, FiniteSets, TLC

(***************************************************************************)
(* Bounds of the model.                                                    *)
(***************************************************************************)
\* longest PortMap handed to the constructor
MaxPortMapLen == 3
\* largest number of server nodes of a location
MaxNodes == 2

(***************************************************************************)
(* PROTOCOL (types/protocol.h is not part of the sources at hand; the      *)
(* enumeration, its string form and the "is IKEv2" predicate follow the    *)
(* data model of the specification).                                       *)
(***************************************************************************)
UNINITIALIZED == "UNINITIALIZED"
OPENVPN_UDP == "OPENVPN_UDP"
OPENVPN_TCP == "OPENVPN_TCP"
IKEV2 == "IKEV2"
WIREGUARD == "WIREGUARD"
STUNNEL == "STUNNEL"
WSTUNNEL == "WSTUNNEL"

PROTOCOL == {OPENVPN_UDP, OPENVPN_TCP, IKEV2, WIREGUARD, STUNNEL, WSTUNNEL}

\* the protocols the PortMaps of the model are drawn from
PortMapProtocols == {OPENVPN_UDP, IKEV2, WIREGUARD}

isIkev2Protocol(protocol) == protocol = IKEV2

toLongString(protocol) ==
    CASE protocol = OPENVPN_UDP -> "UDP"
      [] protocol = OPENVPN_TCP -> "TCP"
      [] protocol = IKEV2 -> "IKEv2"
      [] protocol = WIREGUARD -> "WireGuard"
      [] protocol = STUNNEL -> "Stealth"
      [] protocol = WSTUNNEL -> "WStunnel"
      [] OTHER -> "unknown"

fromString(str) ==
    IF \E p \in PROTOCOL : toLongString(p) = str
    THEN CHOOSE p \in PROTOCOL : toLongString(p) = str
    ELSE UNINITIALIZED

\* threshold of failed IKEv2 attempts from which IKEv2 is left out of a plan
MAX_IKEV2_FAILED_ATTEMPTS == 4

(***************************************************************************)
(* types::PortMap: a sequence of PortItem (protocol, ports).               *)
(***************************************************************************)
PortsOf(protocol) ==
    CASE protocol = OPENVPN_UDP -> <<443, 1194>>
      [] protocol = OPENVPN_TCP -> <<443, 1194>>
      [] protocol = IKEV2 -> <<500>>
      [] protocol = WIREGUARD -> <<51820, 443>>
      [] OTHER -> <<443>>

PortItem(protocol) == [protocol |-> protocol, ports |-> PortsOf(protocol)]

\* the PortMaps of the model: at most MaxPortMapLen entries, one per protocol
PortMaps ==
    { pm \in UNION { [1..n -> {PortItem(p) : p \in PortMapProtocols}] :
                        n \in 0..MaxPortMapLen } :
        \A i, j \in 1..Len(pm) : i # j => pm[i].protocol # pm[j].protocol }

(***************************************************************************)
(* AutoConnSettingsPolicy::AutoConnSettingsPolicy: building the plan.      *)
(* AttemptInfo is [protocol, portMapInd, changeNode]; portMapInd and the   *)
(* positions of QVector are 0-based as in the code, TLA+ sequences 1-based.*)
(***************************************************************************)
AttemptInfo(protocol, portMapInd, changeNode) ==
    [protocol |-> protocol, portMapInd |-> portMapInd, changeNode |-> changeNode]

\* faulty variant: the proxy test inverted
SkipUdp_Inverted(isProxyEnabled, protocol) == ~isProxyEnabled /\ protocol = OPENVPN_UDP

\* skip udp protocol, if proxy enabled
SkipUdp(isProxyEnabled, protocol) == isProxyEnabled /\ protocol = OPENVPN_UDP

\* faulty variant: IKEv2 is never skipped
SkipIkev2_Never(counter, protocol) == FALSE

\* faulty variant: the threshold itself does not yet skip
SkipIkev2_Above(counter, protocol) ==
    counter > MAX_IKEV2_FAILED_ATTEMPTS /\ isIkev2Protocol(protocol)

\* skip ikev2 protocol if failed ikev2 attempts >= MAX_IKEV2_FAILED_ATTEMPTS
SkipIkev2(counter, protocol) ==
    counter >= MAX_IKEV2_FAILED_ATTEMPTS /\ isIkev2Protocol(protocol)

\* the loop over portMap_.items() from portMapInd on
RECURSIVE FilterPortMap(_, _, _, _)
FilterPortMap(portMap, portMapInd, isProxyEnabled, counter) ==
    IF portMapInd >= Len(portMap) THEN << >>
    ELSE LET protocol == portMap[portMapInd + 1].protocol
             rest == FilterPortMap(portMap, portMapInd + 1, isProxyEnabled, counter)
         IN IF SkipUdp(isProxyEnabled, protocol) \/ SkipIkev2(counter, protocol)
            THEN rest
            ELSE <<AttemptInfo(protocol, portMapInd, FALSE)>> \o rest

\* localAttemps.last().changeNode = true
MarkLast(localAttemps) ==
    IF Len(localAttemps) > 0
    THEN [localAttemps EXCEPT ![Len(localAttemps)].changeNode = TRUE]
    ELSE localAttemps

\* QVector::remove(i) and QVector::insert(i, value), i 0-based
RemoveAt(vec, i) == SubSeq(vec, 1, i) \o SubSeq(vec, i + 2, Len(vec))

InsertAt(vec, i, value) == SubSeq(vec, 1, i) \o <<value>> \o SubSeq(vec, i + 1, Len(vec))

\* faulty variant: the remembered protocol goes second behind any protocol
InsertIndex_Second(localAttemps) == IF Len(localAttemps) > 0 THEN 1 ELSE 0

\* faulty variant: the remembered protocol always goes first
InsertIndex_Front(localAttemps) == 0

\* where the remembered protocol is put back: second if ikev2 is first, else first
InsertIndex(localAttemps) ==
    IF Len(localAttemps) > 0 /\ isIkev2Protocol(Head(localAttemps).protocol)
    THEN 1
    ELSE 0

\* if we have successfully saved connection settings, then use it first
MoveSavedFirst(localAttemps, lastSuccessProtocolSaved) ==
    IF lastSuccessProtocolSaved # UNINITIALIZED
       /\ \E i \in 1..Len(localAttemps) : localAttemps[i].protocol = lastSuccessProtocolSaved
    THEN LET i == CHOOSE k \in 1..Len(localAttemps) :
                    /\ localAttemps[k].protocol = lastSuccessProtocolSaved
                    /\ \A j \in 1..(k - 1) : localAttemps[j].protocol # lastSuccessProtocolSaved
             firstAttemptInfo == localAttemps[i]
             removed == RemoveAt(localAttemps, i - 1)
         IN InsertAt(removed, InsertIndex(removed), firstAttemptInfo)
    ELSE localAttemps

\* copy sorted localAttemps to attemps_, once per node
RECURSIVE RepeatForNodes(_, _)
RepeatForNodes(localAttemps, nodes) ==
    IF nodes <= 0 THEN << >>
    ELSE localAttemps \o RepeatForNodes(localAttemps, nodes - 1)

\* faulty variant: the attempts are not duplicated
Duplicate_Once(attemps) == attemps

\* duplicate attempts (because we need do all attempts twice)
Duplicate(attemps) == attemps \o attemps

\* localAttemps as it is just before it is copied to attemps_
LocalAttemps(portMap, isProxyEnabled, counter, lastSuccessProtocolSaved) ==
    MoveSavedFirst(MarkLast(FilterPortMap(portMap, 0, isProxyEnabled, counter)),
                   lastSuccessProtocolSaved)

BuildAttemps(portMap, isProxyEnabled, counter, lastSuccessProtocolSaved, nodes) ==
    Duplicate(RepeatForNodes(
        LocalAttemps(portMap, isProxyEnabled, counter, lastSuccessProtocolSaved), nodes))

(***************************************************************************)
(* The durable settings store, key "successConnectionProtocol": absent, or *)
(* the long string of a protocol written by an earlier run.                *)
(***************************************************************************)
NoValue == [contains |-> FALSE, value |-> ""]

StoredValue(str) == [contains |-> TRUE, value |-> str]

SettingsValues == {NoValue} \cup {StoredValue(toLongString(p)) : p \in PortMapProtocols}

ReadSavedProtocol(stored) ==
    IF stored.contains THEN fromString(stored.value) ELSE UNINITIALIZED

(***************************************************************************)
(* State.                                                                  *)
(***************************************************************************)
VARIABLES
    failedIkev2Counter_,        \* static int AutoConnSettingsPolicy::failedIkev2Counter_
    successConnectionProtocol,  \* QSettings value of "successConnectionProtocol"
    portMap_,                   \* the policy object's copy of the PortMap
    attemps_,                   \* the plan
    curAttempt_,                \* the cursor, 0-based
    bIsAllFailed_,
    isFailedIkev2CounterAlreadyIncremented_,
    bStarted_,
    nodesCount,                 \* locationInfo_->nodesCount()
    selectedNode,               \* the node selector of locationInfo_, 0-based
    ctorArgs,                   \* what the constructor was given and read
    lastOp,                     \* the last operation called and its calls of selectNextNode
    failedCalls,                \* putFailedConnection calls on the started policy since the
                                \* cursor was last at the start, counted up to Len(attemps_) + 1
    incCount,                   \* failedIkev2Counter_++ executed by this policy object
    attempted                   \* the attempts reported as failed since the cursor was last
                                \* at the start: cursor and selected node of each, up to
                                \* Len(attemps_) + 1 of them

policyVars == <<portMap_, attemps_, curAttempt_, bIsAllFailed_,
                isFailedIkev2CounterAlreadyIncremented_, bStarted_, nodesCount,
                selectedNode, ctorArgs, failedCalls, incCount, attempted>>

\* the counter values the model follows; an increment beyond it is not taken
MaxCounter == 5

Op(name, selectNextNodeCalls) == [name |-> name, selectNextNode |-> selectNextNodeCalls]

NoArgs == [isProxyEnabled |-> FALSE, counter |-> 0, lastSuccessProtocolSaved |-> UNINITIALIZED]

Constructed == lastOp.name # "none"

\* an attempt made with the entry at the cursor on the selected node
Attempt(cursor, node) == [cursor |-> cursor, node |-> node]

(***************************************************************************)
(* State of the tunnel health prober, TestVPNTunnel (testvpntunnel.cpp),   *)
(* of the advanced parameters it reads (ExtraConfig), of its single-shot   *)
(* timers and of the ping interface of ServerAPI.                          *)
(***************************************************************************)
VARIABLES
    extraConfig,            \* the advanced parameters; fixed while the process runs
    bRunning_,
    curTest_,               \* 1-based
    cmdId_,
    doCustomTunnelTest_,
    timeouts_,
    testRetryDelay_,
    protocol_,
    elapsed_,               \* ms since elapsed_.start(), followed up to PING_TEST_TIMEOUT_3
    startImplTimers,        \* pending QTimer::singleShot(delay, startTestImpl)
    skippedTimers,          \* pending QTimer::singleShot(1, onTestsSkipped)
    nextPingTimers,         \* pending QTimer::singleShot(.., doNextPingTest)
    outstanding,            \* ServerAPI: ids of probes neither answered nor cancelled
    answerQueue,            \* pingTestAnswer signals queued for onPingTestAnswer
    runProbes,              \* the pingTest calls [cmdId, timeout] since the last startTests
    runResults,             \* the testsFinished results emitted since the last startTests
    earlyFailure,           \* since the last startTests a failing answer was handled
                            \* before the timeout of its attempt had elapsed
    starts,                 \* startTests calls so far: 0, 1, or 2 for more than one
    startedSinceStop,       \* startTests was called and stopTests was not called since
    cmdIdAtStart,           \* cmdId_ when startTests was last called: the probes with a
                            \* greater id are the probes of the current run
    proberOut               \* what the last step of the prober did

proberVars == <<extraConfig, bRunning_, curTest_, cmdId_, doCustomTunnelTest_, timeouts_,
                testRetryDelay_, protocol_, elapsed_, startImplTimers, skippedTimers,
                nextPingTimers, outstanding, answerQueue, runProbes, runResults,
                earlyFailure, starts, startedSinceStop, cmdIdAtStart, proberOut>>

(***************************************************************************)
(* State of one WireGuardConnection object: its fields, the worker thread  *)
(* (wgPc is the point run() has reached, exited the flag QThread::quit     *)
(* sets and QThread::start clears), the caller blocked in wait(), the      *)
(* locals of run(), the helper and the service control manager.  wgEvents  *)
(* are the signals of the current run, wgOut the step just taken, wgIn     *)
(* what the log poll just taken has read.                                  *)
(***************************************************************************)
VARIABLES
    wgPc, stopRequested_, connectedSignalEmited_, isAutomaticConnectionMode_, exited,
    callerWaiting, pendingAutomatic, serviceStarted, disableDNSLeakProtection,
    timeoutArmed, wireGuardInstalled, serviceOpen, serviceStatus, dnsLeaksProtection,
    wgEvents, wgOut, wgIn

wgVars == <<wgPc, stopRequested_, connectedSignalEmited_, isAutomaticConnectionMode_, exited,
            callerWaiting, pendingAutomatic, serviceStarted, disableDNSLeakProtection,
            timeoutArmed, wireGuardInstalled, serviceOpen, serviceStatus,
            dnsLeaksProtection, wgEvents, wgOut, wgIn>>

(***************************************************************************)
(* What an earlier run of the application left behind on the platform and  *)
(* FinishActiveConnections clears: running OpenVPN executables, active RAS *)
(* (IKEv2) connections, a running WireGuard executable and the hosts       *)
(* entries of the helper.  finishOut is the last call of                   *)
(* finishAllActiveConnections with the helper calls it made, in order.     *)
(***************************************************************************)
VARIABLES
    openVpnProcesses, activeRasConnections, wireGuardProcess, hostsAdded, finishOut

finishVars == <<openVpnProcesses, activeRasConnections, wireGuardProcess, hostsAdded,
                finishOut>>

\* everything that is not state of the attempt policy
outsidePolicy == <<proberVars, wgVars, finishVars>>

vars == <<failedIkev2Counter_, successConnectionProtocol, portMap_, attemps_, curAttempt_,
          bIsAllFailed_, isFailedIkev2CounterAlreadyIncremented_, bStarted_, nodesCount,
          selectedNode, ctorArgs, lastOp, failedCalls, incCount, attempted,
          outsidePolicy>>

\* everything that is not state of the prober
outsideProber == <<failedIkev2Counter_, successConnectionProtocol, policyVars, lastOp, wgVars,
                   finishVars>>

\* everything that is not state of the WireGuard connection
outsideWg == <<failedIkev2Counter_, successConnectionProtocol, policyVars, lastOp, proberVars,
               finishVars>>

\* an advanced parameter that is not set
NoParam == [exists |-> FALSE, value |-> 0]

Param(value) == [exists |-> TRUE, value |-> value]

NoExtraConfig ==
    [startDelay |-> NoParam, attempts |-> NoParam, timeout |-> NoParam, retryDelay |-> NoParam]

\* one step of the prober: the handler that ran, the probe answer it was given,
\* and its calls of pingTest and cancelPingTest and its testsFinished signals
ProberOut(op, answer, pings, cancels, emitted) ==
    [op |-> op, answer |-> answer, pings |-> pings, cancels |-> cancels, emitted |-> emitted]

NoAnswer == [retCode |-> "none", data |-> ""]

\* TestVPNTunnel::TestVPNTunnel
ProberConstructed(config) ==
    /\ extraConfig = config
    /\ bRunning_ = FALSE
    /\ curTest_ = 1
    /\ cmdId_ = 0
    /\ doCustomTunnelTest_ = FALSE
    /\ timeouts_ = << >>
    /\ testRetryDelay_ = 0
    /\ protocol_ = UNINITIALIZED
    /\ elapsed_ = 0
    /\ startImplTimers = 0
    /\ skippedTimers = 0
    /\ nextPingTimers = 0
    /\ outstanding = {}
    /\ answerQueue = << >>
    /\ runProbes = << >>
    /\ runResults = << >>
    /\ earlyFailure = FALSE
    /\ starts = 0
    /\ startedSinceStop = FALSE
    /\ cmdIdAtStart = 0
    /\ proberOut = ProberOut("none", NoAnswer, << >>, << >>, << >>)

\* the process starts with no policy object; the settings store holds what an
\* earlier process left
SERVICE_STOPPED == "SERVICE_STOPPED"
SERVICE_STOP_PENDING == "SERVICE_STOP_PENDING"
SERVICE_RUNNING == "SERVICE_RUNNING"

\* the step op of the connection, with the signals and helper calls it made, in order
WgOut(op, trace) == [op |-> op, trace |-> trace]

\* what a log poll reads: the ring log, WinUtils::haveInternetConnectivity, the status
\* of the helper and the age of the last handshake in seconds
Reads(log, haveInternet, status, secsTo) ==
    [log |-> log, haveInternet |-> haveInternet, status |-> status, secsTo |-> secsTo]

NoReads == Reads("none", "none", "none", 0)

\* a call of finishAllActiveConnections: the helper calls it made, in order
FinishOut(op, trace) == [op |-> op, trace |-> trace]

\* nothing is left over from an earlier run and nothing has been finished
NothingToFinish ==
    /\ openVpnProcesses = {}
    /\ activeRasConnections = {}
    /\ wireGuardProcess = FALSE
    /\ hostsAdded = FALSE
    /\ finishOut = FinishOut("none", << >>)

\* WireGuardConnection(parent, helper); no thread is running
WgIdle ==
    /\ wgPc = "idle"
    /\ stopRequested_ = FALSE
    /\ connectedSignalEmited_ = FALSE
    /\ isAutomaticConnectionMode_ = FALSE
    /\ exited = FALSE
    /\ callerWaiting = FALSE
    /\ pendingAutomatic = FALSE
    /\ serviceStarted = FALSE
    /\ disableDNSLeakProtection = FALSE
    /\ timeoutArmed = FALSE
    /\ serviceOpen = FALSE
    /\ wgEvents = << >>
    /\ wgOut = WgOut("none", << >>)
    /\ wgIn = NoReads

\* no WireGuard service is installed and DNS-leak protection is off
NoService ==
    /\ wireGuardInstalled = FALSE
    /\ serviceStatus = SERVICE_STOPPED
    /\ dnsLeaksProtection = FALSE

\* a connection object on a platform on which nothing is left over
WgConstructed ==
    /\ WgIdle
    /\ NoService
    /\ NothingToFinish

Init ==
    /\ failedIkev2Counter_ = 0
    /\ successConnectionProtocol \in SettingsValues
    /\ portMap_ = << >>
    /\ attemps_ = << >>
    /\ curAttempt_ = 0
    /\ bIsAllFailed_ = FALSE
    /\ isFailedIkev2CounterAlreadyIncremented_ = FALSE
    /\ bStarted_ = FALSE
    /\ nodesCount = 1
    /\ selectedNode = 0
    /\ ctorArgs = NoArgs
    /\ lastOp = Op("none", 0)
    /\ failedCalls = 0
    /\ incCount = 0
    /\ attempted = << >>
    /\ ProberConstructed(NoExtraConfig)
    /\ WgConstructed

(***************************************************************************)
(* MutableLocationInfo (not part of the sources at hand): the node         *)
(* selector cycles through the nodes of the location.                      *)
(***************************************************************************)
\* faulty variant: the selector stays on the node
selectNextNode_Stays(selected, nodes) == selected

selectNextNode(selected, nodes) == (selected + 1) % nodes

(***************************************************************************)
(* Operations of the policy.                                               *)
(***************************************************************************)
\* a session constructs its policy object; one policy object exists at a time
Construct ==
    /\ ~Constructed
    /\ UNCHANGED outsidePolicy
    /\ \E portMap \in PortMaps, isProxyEnabled \in BOOLEAN, nodes \in 1..MaxNodes :
          LET saved == ReadSavedProtocol(successConnectionProtocol)
              node == 0   \* the location starts on its first node
          IN /\ attemps_' = BuildAttemps(portMap, isProxyEnabled, failedIkev2Counter_,
                                         saved, nodes)
             /\ curAttempt_' = 0
             /\ bIsAllFailed_' = FALSE
             /\ isFailedIkev2CounterAlreadyIncremented_' = FALSE
             /\ portMap_' = portMap
             /\ bStarted_' = FALSE
             /\ nodesCount' = nodes
             /\ selectedNode' = node
             /\ ctorArgs' = [isProxyEnabled |-> isProxyEnabled,
                             counter |-> failedIkev2Counter_,
                             lastSuccessProtocolSaved |-> saved]
             /\ lastOp' = Op("construct", 0)
             /\ failedCalls' = 0
             /\ incCount' = 0
             /\ attempted' = << >>
             /\ UNCHANGED <<failedIkev2Counter_, successConnectionProtocol>>

\* the session ends and its policy object is destroyed; the static counter and
\* the settings store outlive it
Destroy ==
    /\ Constructed
    /\ UNCHANGED outsidePolicy
    /\ portMap_' = << >>
    /\ attemps_' = << >>
    /\ curAttempt_' = 0
    /\ bIsAllFailed_' = FALSE
    /\ isFailedIkev2CounterAlreadyIncremented_' = FALSE
    /\ bStarted_' = FALSE
    /\ nodesCount' = 1
    /\ selectedNode' = 0
    /\ ctorArgs' = NoArgs
    /\ lastOp' = Op("none", 0)
    /\ failedCalls' = 0
    /\ incCount' = 0
    /\ attempted' = << >>
    /\ UNCHANGED <<failedIkev2Counter_, successConnectionProtocol>>

\* BaseConnSettingsPolicy::start / stop
Start ==
    /\ Constructed
    /\ UNCHANGED outsidePolicy
    /\ bStarted_' = TRUE
    /\ lastOp' = Op("start", 0)
    /\ UNCHANGED <<failedIkev2Counter_, successConnectionProtocol, portMap_, attemps_,
                   curAttempt_, bIsAllFailed_, isFailedIkev2CounterAlreadyIncremented_,
                   nodesCount, selectedNode, ctorArgs, failedCalls, incCount, attempted>>

Stop ==
    /\ Constructed
    /\ UNCHANGED outsidePolicy
    /\ bStarted_' = FALSE
    /\ lastOp' = Op("stop", 0)
    /\ UNCHANGED <<failedIkev2Counter_, successConnectionProtocol, portMap_, attemps_,
                   curAttempt_, bIsAllFailed_, isFailedIkev2CounterAlreadyIncremented_,
                   nodesCount, selectedNode, ctorArgs, failedCalls, incCount, attempted>>

\* faulty variant: reset also clears the already-incremented marker
Reset_ClearsMarker ==
    /\ Constructed
    /\ UNCHANGED outsidePolicy
    /\ curAttempt_' = 0
    /\ bIsAllFailed_' = FALSE
    /\ isFailedIkev2CounterAlreadyIncremented_' = FALSE
    /\ failedCalls' = 0
    /\ attempted' = << >>
    /\ lastOp' = Op("reset", 0)
    /\ UNCHANGED <<failedIkev2Counter_, successConnectionProtocol, portMap_, attemps_,
                   bStarted_, nodesCount, selectedNode, ctorArgs, incCount>>

Reset ==
    /\ Constructed
    /\ UNCHANGED outsidePolicy
    /\ curAttempt_' = 0
    /\ bIsAllFailed_' = FALSE
    /\ failedCalls' = 0
    /\ attempted' = << >>
    /\ lastOp' = Op("reset", 0)
    /\ UNCHANGED <<failedIkev2Counter_, successConnectionProtocol, portMap_, attemps_,
                   isFailedIkev2CounterAlreadyIncremented_, bStarted_, nodesCount,
                   selectedNode, ctorArgs, incCount>>

\* attemps_[curAttempt_]: the entry at the cursor, or, when the cursor is not an
\* index of attemps_ (the plan is empty), whatever the read outside the vector gives
AttemptsAtCursor ==
    IF curAttempt_ < Len(attemps_)
    THEN {attemps_[curAttempt_ + 1]}
    ELSE {AttemptInfo(p, 0, c) : p \in PROTOCOL \cup {UNINITIALIZED}, c \in BOOLEAN}

\* faulty variant: the already-incremented marker is not consulted
IncrementsCounter_EveryTime(protocol, alreadyIncremented) == isIkev2Protocol(protocol)

\* protocol.isIkev2Protocol() && !isFailedIkev2CounterAlreadyIncremented_
IncrementsCounter(protocol, alreadyIncremented) ==
    isIkev2Protocol(protocol) /\ ~alreadyIncremented

\* faulty variants: terminal failure one call early; the cursor run past the end
HasNextAttempt_EndsEarly(cur, count) == cur < count - 2

HasNextAttempt_PastEnd(cur, count) == cur < count

\* curAttempt_ < (attemps_.count() - 1)
HasNextAttempt(cur, count) == cur < count - 1

isFailed == IF ~bStarted_ THEN FALSE ELSE bIsAllFailed_

putFailedConnection ==
    /\ Constructed
    /\ UNCHANGED outsidePolicy
    /\ IF ~bStarted_
       THEN /\ lastOp' = Op("putFailedConnection", 0)
            /\ UNCHANGED <<failedIkev2Counter_, successConnectionProtocol>>
            /\ UNCHANGED policyVars
       ELSE \E cur \in AttemptsAtCursor :
              LET inc == IncrementsCounter(cur.protocol,
                                           isFailedIkev2CounterAlreadyIncremented_)
                  next == HasNextAttempt(curAttempt_, Len(attemps_))
                  change == next /\ cur.changeNode
              IN /\ inc => failedIkev2Counter_ < MaxCounter
                 /\ failedIkev2Counter_' = IF inc THEN failedIkev2Counter_ + 1
                                                  ELSE failedIkev2Counter_
                 /\ isFailedIkev2CounterAlreadyIncremented_' =
                        (inc \/ isFailedIkev2CounterAlreadyIncremented_)
                 /\ incCount' = IF inc THEN incCount + 1 ELSE incCount
                 /\ selectedNode' = IF change THEN selectNextNode(selectedNode, nodesCount)
                                              ELSE selectedNode
                 /\ curAttempt_' = IF next THEN curAttempt_ + 1 ELSE curAttempt_
                 /\ bIsAllFailed_' = IF next THEN bIsAllFailed_ ELSE TRUE
                 /\ failedCalls' = IF failedCalls <= Len(attemps_) THEN failedCalls + 1
                                                                    ELSE failedCalls
                 /\ attempted' = IF Len(attempted) <= Len(attemps_)
                                  THEN Append(attempted, Attempt(curAttempt_, selectedNode))
                                  ELSE attempted
                 /\ lastOp' = Op("putFailedConnection", IF change THEN 1 ELSE 0)
                 /\ UNCHANGED <<successConnectionProtocol, portMap_, attemps_, bStarted_,
                                nodesCount, ctorArgs>>

\* faulty variant: every success resets the counter
CounterAfterSuccess_AlwaysZero(protocol, counter) == 0

\* reset ikev2 failed attempts counter if we connected with ikev2 successfully
CounterAfterSuccess(protocol, counter) == IF isIkev2Protocol(protocol) THEN 0 ELSE counter

saveCurrentSuccessfullConnectionSettings ==
    /\ Constructed
    /\ UNCHANGED outsidePolicy
    /\ \E cur \in AttemptsAtCursor :
         /\ failedIkev2Counter_' = CounterAfterSuccess(cur.protocol, failedIkev2Counter_)
         /\ successConnectionProtocol' = StoredValue(toLongString(cur.protocol))
    /\ lastOp' = Op("saveCurrentSuccessfullConnectionSettings", 0)
    /\ UNCHANGED policyVars

\* faulty variant: the last port of the entry is taken
PortOfAttempt_LastPort(portMap, attempt) ==
    LET ports == portMap[attempt.portMapInd + 1].ports IN ports[Len(ports)]

\* portMap_.const_items()[attemps_[curAttempt_].portMapInd].ports[0]
PortOfAttempt(portMap, attempt) == portMap[attempt.portMapInd + 1].ports[1]

\* the protocol and port of the descriptor returned for a cursor inside the plan
\* (ip, hostname, keys and credentials come from locationInfo_ and are not followed)
getCurrentConnectionSettings ==
    LET attempt == attemps_[curAttempt_ + 1]
    IN [protocol |-> attempt.protocol, port |-> PortOfAttempt(portMap_, attempt)]

Next ==
    \/ Construct
    \/ Destroy
    \/ Start
    \/ Stop
    \/ Reset
    \/ putFailedConnection
    \/ saveCurrentSuccessfullConnectionSettings

Spec == Init /\ [][Next]_vars

(***************************************************************************)
(* The tunnel health prober, TestVPNTunnel.  Its header, ExtraConfig,      *)
(* IpValidation and ServerAPI are not part of the sources at hand; the     *)
(* timeout constants, the parameter values, the answers of the probe       *)
(* service and the test for an IP address follow the specification.        *)
(***************************************************************************)
\* bounds of the prober model: probes issued per process, pending timers per slot
MaxCmdId == 4
MaxTimers == 1

PING_TEST_TIMEOUT_1 == 2000
PING_TEST_TIMEOUT_3 == 8000

\* the advanced parameters of the model
ExtraConfigs ==
    [startDelay : {NoParam, Param(1000)},
     attempts   : {NoParam, Param(0), Param(1), Param(2)},
     timeout    : {NoParam, Param(3000)},
     retryDelay : {NoParam, Param(500)}]

ProberProtocols == {WIREGUARD}

SERVER_RETURN_SUCCESS == "SERVER_RETURN_SUCCESS"
SERVER_RETURN_NETWORK_ERROR == "SERVER_RETURN_NETWORK_ERROR"

\* what the probe service can answer: an IP address with surrounding white space,
\* a success whose payload is no IP address, a transport error
AnswerKinds ==
    { [retCode |-> SERVER_RETURN_SUCCESS, data |-> " 10.0.0.1\n"],
      [retCode |-> SERVER_RETURN_SUCCESS, data |-> "<html>"],
      [retCode |-> SERVER_RETURN_NETWORK_ERROR, data |-> ""] }

\* a queued pingTestAnswer(retCode, data); ofRun: the probe it answers was issued
\* since the last call of startTests (the signal itself does not say so)
Answer(retCode, data, ofRun) == [retCode |-> retCode, data |-> data, ofRun |-> ofRun]

\* QString::trimmed and IpValidation::isIp on the payloads of the model
trimmed(data) == IF data = " 10.0.0.1\n" THEN "10.0.0.1" ELSE data

isIp(str) == str = "10.0.0.1"

\* a testsFinished signal
Result(success, ipAddress) == [success |-> success, ipAddress |-> ipAddress]

\* the fields of the prober, its timers, the probe service and the calls and
\* signals of the handler being run, as one record the handlers transform
ProberState ==
    [running |-> bRunning_, curTest |-> curTest_, cmdId |-> cmdId_,
     custom |-> doCustomTunnelTest_, timeouts |-> timeouts_, retryDelay |-> testRetryDelay_,
     elapsed |-> elapsed_, startImplTimers |-> startImplTimers,
     skippedTimers |-> skippedTimers, nextPingTimers |-> nextPingTimers,
     outstanding |-> outstanding, early |-> earlyFailure,
     pings |-> << >>, cancels |-> << >>, emitted |-> << >>]

\* serverAPI_->pingTest(cmdId_, timeout, ..) and serverAPI_->cancelPingTest(cmdId_)
pingTest(st, timeout) ==
    [st EXCEPT !.outstanding = @ \cup {st.cmdId},
               !.pings = Append(@, timeout)]

cancelPingTest(st) ==
    [st EXCEPT !.outstanding = @ \ {st.cmdId}, !.cancels = Append(@, st.cmdId)]

emitTestsFinished(st, success, ipAddress) ==
    [st EXCEPT !.emitted = Append(@, Result(success, ipAddress))]

\* faulty variant: stopTests cancels whether or not a test is running
StopCancels_Always(running) == TRUE

\* if (bRunning_)
StopCancels(running) == running

stopTestsImpl(st) ==
    IF StopCancels(st.running)
    THEN cancelPingTest([st EXCEPT !.running = FALSE])
    ELSE st

\* the default timeouts: PING_TEST_TIMEOUT_1, doubled while below PING_TEST_TIMEOUT_3
RECURSIVE DefaultTimeouts(_, _, _)
DefaultTimeouts(i, attempts, timeout) ==
    IF i >= attempts THEN << >>
    ELSE <<timeout>> \o DefaultTimeouts(i + 1, attempts,
                                        IF timeout < PING_TEST_TIMEOUT_3 THEN timeout * 2
                                                                          ELSE timeout)

\* faulty variant: the timeout grows with the attempt
Fill_Growing(timeout, attempts) == [i \in 1..attempts |-> timeout * i]

\* timeouts_.fill(timeout, attempts)
Fill(timeout, attempts) == [i \in 1..attempts |-> timeout]

\* the timeout passed by doNextPingTest in the default mode
RemainingTimeout(timeout, elapsed) ==
    IF timeout - elapsed > 0 THEN timeout - elapsed ELSE 100

doNextPingTestImpl(st) ==
    IF st.running /\ st.curTest >= 1 /\ st.curTest <= Len(st.timeouts)
    THEN LET st1 == [st EXCEPT !.cmdId = @ + 1]
         IN IF st1.custom
            THEN pingTest(st1, st1.timeouts[st1.curTest])
            ELSE pingTest(st1, RemainingTimeout(st1.timeouts[st1.curTest], st1.elapsed))
    ELSE st

startTestImplImpl(st) ==
    LET attempts == IF extraConfig.attempts.exists THEN extraConfig.attempts.value ELSE 3
        custom1 == st.custom \/ extraConfig.attempts.exists
        custom2 == custom1 \/ extraConfig.timeout.exists
        custom3 == custom2 \/ extraConfig.retryDelay.exists
    IN IF attempts = 0
       THEN [st EXCEPT !.timeouts = << >>, !.custom = custom1, !.skippedTimers = @ + 1]
       ELSE LET st1 == [st EXCEPT
                          !.timeouts = IF extraConfig.timeout.exists
                                       THEN Fill(extraConfig.timeout.value, attempts)
                                       ELSE DefaultTimeouts(0, attempts, PING_TEST_TIMEOUT_1),
                          !.retryDelay = IF extraConfig.retryDelay.exists
                                         THEN extraConfig.retryDelay.value ELSE 0,
                          !.custom = custom3,
                          !.running = TRUE,
                          !.curTest = 1,
                          !.elapsed = 0,
                          !.cmdId = @ + 1]
            IN pingTest(st1, st1.timeouts[st1.curTest])

\* faulty variant: the payload is not tested for being an IP address
IsSuccessAnswer_AnyPayload(retCode, trimmedData) == retCode = SERVER_RETURN_SUCCESS

\* retCode == SERVER_RETURN_SUCCESS && IpValidation::instance().isIp(trimmedData)
IsSuccessAnswer(retCode, trimmedData) ==
    retCode = SERVER_RETURN_SUCCESS /\ isIp(trimmedData)

\* faulty variant: one attempt too few
HasNextTest_OneLess(curTest, size) == curTest < size - 1

\* curTest_ < timeouts_.size()
HasNextTest(curTest, size) == curTest < size

onPingTestAnswerImpl(st, retCode, data) ==
    IF ~st.running THEN st
    ELSE IF IsSuccessAnswer(retCode, trimmed(data))
    THEN emitTestsFinished([st EXCEPT !.running = FALSE], TRUE, trimmed(data))
    ELSE IF st.custom
    THEN IF HasNextTest(st.curTest, Len(st.timeouts))
         THEN [st EXCEPT !.curTest = @ + 1, !.nextPingTimers = @ + 1]
         ELSE emitTestsFinished([st EXCEPT !.running = FALSE], FALSE, "")
    ELSE IF st.elapsed < st.timeouts[st.curTest]
    THEN [st EXCEPT !.nextPingTimers = @ + 1, !.early = TRUE]
    ELSE IF HasNextTest(st.curTest, Len(st.timeouts))
         THEN doNextPingTestImpl([st EXCEPT !.curTest = @ + 1, !.elapsed = 0])
         ELSE emitTestsFinished([st EXCEPT !.running = FALSE], FALSE, "")

onTestsSkippedImpl(st) == emitTestsFinished(st, TRUE, "")

\* the bounds of the model
WithinProberBounds(st) ==
    /\ st.cmdId <= MaxCmdId
    /\ st.startImplTimers <= MaxTimers
    /\ st.skippedTimers <= MaxTimers
    /\ st.nextPingTimers <= MaxTimers

\* the handler op has run and left st; newRun: it was a call of startTests
ProberStep(op, answer, st, newRun) ==
    /\ WithinProberBounds(st)
    /\ bRunning_' = st.running
    /\ curTest_' = st.curTest
    /\ cmdId_' = st.cmdId
    /\ doCustomTunnelTest_' = st.custom
    /\ timeouts_' = st.timeouts
    /\ testRetryDelay_' = st.retryDelay
    /\ elapsed_' = st.elapsed
    /\ startImplTimers' = st.startImplTimers
    /\ skippedTimers' = st.skippedTimers
    /\ nextPingTimers' = st.nextPingTimers
    /\ outstanding' = st.outstanding
    /\ earlyFailure' = IF newRun THEN FALSE ELSE st.early
    /\ runProbes' = (IF newRun THEN << >> ELSE runProbes) \o st.pings
    /\ runResults' = (IF newRun THEN << >> ELSE runResults) \o st.emitted
    /\ proberOut' = ProberOut(op, answer, st.pings, st.cancels, st.emitted)
    /\ UNCHANGED <<extraConfig, outsideProber>>

startTests ==
    \E protocol \in ProberProtocols :
        LET st1 == stopTestsImpl(ProberState)
            st2 == IF extraConfig.startDelay.exists
                   THEN [st1 EXCEPT !.startImplTimers = @ + 1]
                   ELSE startTestImplImpl(st1)
        IN /\ ProberStep("startTests", NoAnswer, st2, TRUE)
           /\ protocol_' = protocol
           /\ starts' = IF starts < 2 THEN starts + 1 ELSE starts
           /\ startedSinceStop' = TRUE
           /\ cmdIdAtStart' = cmdId_
           /\ answerQueue' = [i \in 1..Len(answerQueue) |->
                                 Answer(answerQueue[i].retCode, answerQueue[i].data, FALSE)]

\* the single-shot timer of startTests fires
startTestImpl ==
    /\ startImplTimers > 0
    /\ ProberStep("startTestImpl", NoAnswer,
                  startTestImplImpl([ProberState EXCEPT !.startImplTimers = @ - 1]), FALSE)
    /\ UNCHANGED <<protocol_, starts, startedSinceStop, cmdIdAtStart, answerQueue>>

stopTests ==
    /\ ProberStep("stopTests", NoAnswer, stopTestsImpl(ProberState), FALSE)
    /\ startedSinceStop' = FALSE
    /\ UNCHANGED <<protocol_, starts, cmdIdAtStart, answerQueue>>

\* the queued pingTestAnswer signal at the head of the queue is delivered
onPingTestAnswer ==
    /\ answerQueue # << >>
    /\ LET answer == Head(answerQueue)
       IN ProberStep("onPingTestAnswer", answer,
                     onPingTestAnswerImpl(ProberState, answer.retCode, answer.data), FALSE)
    /\ answerQueue' = Tail(answerQueue)
    /\ UNCHANGED <<protocol_, starts, startedSinceStop, cmdIdAtStart>>

\* the single-shot timer of onPingTestAnswer fires
doNextPingTest ==
    /\ nextPingTimers > 0
    /\ ProberStep("doNextPingTest", NoAnswer,
                  doNextPingTestImpl([ProberState EXCEPT !.nextPingTimers = @ - 1]), FALSE)
    /\ UNCHANGED <<protocol_, starts, startedSinceStop, cmdIdAtStart, answerQueue>>

\* the single-shot timer of startTestImpl fires
onTestsSkipped ==
    /\ skippedTimers > 0
    /\ ProberStep("onTestsSkipped", NoAnswer,
                  onTestsSkippedImpl([ProberState EXCEPT !.skippedTimers = @ - 1]), FALSE)
    /\ UNCHANGED <<protocol_, starts, startedSinceStop, cmdIdAtStart, answerQueue>>

\* ServerAPI answers an outstanding probe: one pingTestAnswer signal is queued
ServerAPIAnswers ==
    \E id \in outstanding, kind \in AnswerKinds :
        /\ outstanding' = outstanding \ {id}
        /\ answerQueue' = Append(answerQueue,
                                 Answer(kind.retCode, kind.data, id > cmdIdAtStart))
        /\ proberOut' = ProberOut("ServerAPI", NoAnswer, << >>, << >>, << >>)
        /\ UNCHANGED <<extraConfig, bRunning_, curTest_, cmdId_, doCustomTunnelTest_,
                       timeouts_, testRetryDelay_, protocol_, elapsed_, startImplTimers,
                       skippedTimers, nextPingTimers, runProbes, runResults, earlyFailure,
                       starts, startedSinceStop, cmdIdAtStart, outsideProber>>

\* time passes while a test runs; elapsed_ is followed in steps of PING_TEST_TIMEOUT_1
Tick ==
    /\ bRunning_
    /\ elapsed_ < PING_TEST_TIMEOUT_3
    /\ elapsed_' = elapsed_ + PING_TEST_TIMEOUT_1
    /\ proberOut' = ProberOut("Tick", NoAnswer, << >>, << >>, << >>)
    /\ UNCHANGED <<extraConfig, bRunning_, curTest_, cmdId_, doCustomTunnelTest_,
                   timeouts_, testRetryDelay_, protocol_, startImplTimers, skippedTimers,
                   nextPingTimers, outstanding, answerQueue, runProbes, runResults,
                   earlyFailure, starts, startedSinceStop, cmdIdAtStart, outsideProber>>

\* no policy object, nothing remembered
PolicyAbsent ==
    /\ failedIkev2Counter_ = 0
    /\ successConnectionProtocol = NoValue
    /\ portMap_ = << >>
    /\ attemps_ = << >>
    /\ curAttempt_ = 0
    /\ bIsAllFailed_ = FALSE
    /\ isFailedIkev2CounterAlreadyIncremented_ = FALSE
    /\ bStarted_ = FALSE
    /\ nodesCount = 1
    /\ selectedNode = 0
    /\ ctorArgs = NoArgs
    /\ lastOp = Op("none", 0)
    /\ failedCalls = 0
    /\ incCount = 0
    /\ attempted = << >>

InitProber ==
    /\ PolicyAbsent
    /\ \E config \in ExtraConfigs : ProberConstructed(config)
    /\ WgConstructed

NextProber ==
    \/ startTests
    \/ startTestImpl
    \/ stopTests
    \/ onPingTestAnswer
    \/ doNextPingTest
    \/ onTestsSkipped
    \/ ServerAPIAnswers
    \/ Tick

SpecProber == InitProber /\ [][NextProber]_vars

(***************************************************************************)
(* Vocabulary of the properties, stated on the constructor's inputs.       *)
(***************************************************************************)
PlanLen == Len(attemps_)

CursorValid == curAttempt_ < PlanLen

\* 1-based positions of the PortMap entries that survive the filtering
EligiblePositions ==
    { i \in 1..Len(portMap_) :
        /\ ~(ctorArgs.isProxyEnabled /\ portMap_[i].protocol = OPENVPN_UDP)
        /\ ~(ctorArgs.counter >= MAX_IKEV2_FAILED_ATTEMPTS /\ portMap_[i].protocol = IKEV2) }

EligibleCount == Cardinality(EligiblePositions)

EligibleProtocols == { portMap_[i].protocol : i \in EligiblePositions }

FirstEligibleProtocol ==
    portMap_[CHOOSE i \in EligiblePositions : \A j \in EligiblePositions : i <= j].protocol

PlanProtocols == { attemps_[k].protocol : k \in 1..PlanLen }

Remembered == ctorArgs.lastSuccessProtocolSaved

PutFailedStep == lastOp'.name = "putFailedConnection" /\ bStarted_

----------------------------------------------------------------------------
\* C1: the built plan has length 2 * N * E, E the number of PortMap entries
\* that survive the filtering, whatever protocol is remembered.
C1_PlanLength == Constructed => PlanLen = 2 * nodesCount * EligibleCount

\* a plan of two nodes in which an entry was filtered out and the remembered
\* protocol was moved
C1_Witness ==
    /\ Constructed
    /\ nodesCount = 2
    /\ EligibleCount = 2
    /\ Len(portMap_) = 3
    /\ Remembered \in EligibleProtocols
    /\ Remembered # FirstEligibleProtocol
    /\ PlanLen = 8

\* C2: on a started policy with a plan of L >= 1 entries, isFailed() is false
\* after each of the first L - 1 putFailedConnection calls and true from the
\* L-th call on.
C2_FailedExactlyAfterLenCalls ==
    (Constructed /\ bStarted_ /\ PlanLen >= 1) => (isFailed <=> failedCalls >= PlanLen)

C2_Witness ==
    /\ isFailed
    /\ lastOp.name = "putFailedConnection"
    /\ failedCalls = PlanLen
    /\ PlanLen >= 4

\* C3: a plan built while failedIkev2Counter_ >= MAX_IKEV2_FAILED_ATTEMPTS has
\* no IKEv2 attempt, also when IKEv2 is the remembered protocol.
C3_NoIkev2AtThreshold ==
    (Constructed /\ ctorArgs.counter >= MAX_IKEV2_FAILED_ATTEMPTS) => IKEV2 \notin PlanProtocols

C3_Witness ==
    /\ Constructed
    /\ ctorArgs.counter >= MAX_IKEV2_FAILED_ATTEMPTS
    /\ \E i \in 1..Len(portMap_) : portMap_[i].protocol = IKEV2
    /\ Remembered = IKEV2
    /\ PlanLen >= 2

\* C4: a remembered protocol X # IKEv2 that is eligible, with IKEv2 the first
\* filtered entry, is at plan index 1 and IKEv2 stays at plan index 0.
C4_RememberedSecondAfterIkev2 ==
    (/\ Constructed
     /\ Remembered # UNINITIALIZED
     /\ Remembered # IKEV2
     /\ Remembered \in EligibleProtocols
     /\ FirstEligibleProtocol = IKEV2)
    => (attemps_[1].protocol = IKEV2 /\ attemps_[2].protocol = Remembered)

\* the remembered protocol was the third PortMap entry
C4_Witness ==
    /\ Constructed
    /\ Len(portMap_) = 3
    /\ portMap_[1].protocol = IKEV2
    /\ EligibleCount = 3
    /\ Remembered = portMap_[3].protocol
    /\ attemps_[2].protocol = Remembered

\* C5: within each per-node sub-sequence of E entries the last entry, and only
\* the last entry, has changeNode set, for every remembered protocol.
C5_ChangeNodeOnLastOfEachPass ==
    (Constructed /\ EligibleCount >= 1) =>
        \A k \in 1..PlanLen : attemps_[k].changeNode <=> (k % EligibleCount = 0)

\* C6: one policy object increments failedIkev2Counter_ at most once, in the
\* first putFailedConnection call made while the attempt at the cursor is
\* IKEv2; no other call of it raises the counter, and a failure of a
\* non-IKEv2 attempt leaves the counter unchanged.
C6_CounterIncrementedOncePerSession ==
    [][/\ incCount' <= 1
       /\ (Constructed /\ failedIkev2Counter_' > failedIkev2Counter_) =>
            /\ PutFailedStep
            /\ ~isFailedIkev2CounterAlreadyIncremented_
            /\ incCount = 0
            /\ failedIkev2Counter_' = failedIkev2Counter_ + 1
            /\ CursorValid => attemps_[curAttempt_ + 1].protocol = IKEV2
       /\ (PutFailedStep /\ CursorValid /\ attemps_[curAttempt_ + 1].protocol = IKEV2
             /\ incCount = 0)
            => failedIkev2Counter_' = failedIkev2Counter_ + 1
       /\ (PutFailedStep /\ CursorValid /\ attemps_[curAttempt_ + 1].protocol # IKEV2)
            => failedIkev2Counter_' = failedIkev2Counter_
       /\ (lastOp'.name = "reset") => incCount' = incCount
      ]_vars

\* an IKEv2 failure after terminal failure, the increment made earlier
C6_Witness ==
    /\ lastOp.name = "putFailedConnection"
    /\ bStarted_
    /\ bIsAllFailed_
    /\ failedCalls = PlanLen + 1
    /\ CursorValid
    /\ attemps_[curAttempt_ + 1].protocol = IKEV2
    /\ incCount = 1

\* C7 as claimed: every putFailedConnection call on a node-advancing attempt
\* advances the node selector once, the call on the final entry included, and
\* a call on a non-advancing attempt never does.
C7_Claimed_ChangeNodeAlwaysAdvances ==
    [][(PutFailedStep /\ CursorValid) =>
          /\ lastOp'.selectNextNode = (IF attemps_[curAttempt_ + 1].changeNode THEN 1 ELSE 0)
          /\ selectedNode' = (IF attemps_[curAttempt_ + 1].changeNode
                              THEN (selectedNode + 1) % nodesCount
                              ELSE selectedNode)
      ]_vars

\* C7 amended: a putFailedConnection call on a started policy whose cursor is
\* not on the final entry advances the node selector exactly once if the
\* attempt at the cursor is node-advancing and not otherwise; a call made with
\* the cursor on the final entry never advances it.
C7_ChangeNodeAdvancesBeforeFinalEntry ==
    [][(PutFailedStep /\ CursorValid) =>
          LET advancing == attemps_[curAttempt_ + 1].changeNode /\ curAttempt_ # PlanLen - 1
          IN /\ lastOp'.selectNextNode = (IF advancing THEN 1 ELSE 0)
             /\ selectedNode' = (IF advancing THEN (selectedNode + 1) % nodesCount
                                              ELSE selectedNode)
      ]_vars

\* the selector was advanced to the second node by the last call
C7_Witness ==
    /\ lastOp = Op("putFailedConnection", 1)
    /\ nodesCount = 2
    /\ curAttempt_ >= 1
    /\ attemps_[curAttempt_].changeNode

\* C8: saveCurrentSuccessfullConnectionSettings stores the protocol of the
\* attempt at the cursor as the last successful protocol, sets
\* failedIkev2Counter_ to 0 iff that protocol is IKEv2 and otherwise leaves it,
\* and leaves cursor, plan and is-failed unchanged.
C8_SaveSuccessEffect ==
    [][(lastOp'.name = "saveCurrentSuccessfullConnectionSettings" /\ CursorValid) =>
          LET protocol == attemps_[curAttempt_ + 1].protocol
          IN /\ successConnectionProtocol'.contains
             /\ ReadSavedProtocol(successConnectionProtocol') = protocol
             /\ protocol = IKEV2 => failedIkev2Counter_' = 0
             /\ protocol # IKEV2 => failedIkev2Counter_' = failedIkev2Counter_
             /\ UNCHANGED <<curAttempt_, attemps_, bIsAllFailed_, bStarted_>>
      ]_vars

\* a success of a non-IKEv2 attempt after this session's IKEv2 failure: the
\* counter keeps its value
C8_Witness ==
    /\ lastOp.name = "saveCurrentSuccessfullConnectionSettings"
    /\ CursorValid
    /\ attemps_[curAttempt_ + 1].protocol = WIREGUARD
    /\ ReadSavedProtocol(successConnectionProtocol) = WIREGUARD
    /\ incCount = 1
    /\ failedIkev2Counter_ >= 2

\* C9: reset() sets the cursor to 0 and clears terminal failure and leaves the
\* plan, the counter and the already-incremented marker unchanged; from then
\* on len(plan) putFailedConnection calls are again needed to reach isFailed().
C9_ResetRewindsOnly ==
    [][/\ (lastOp'.name = "reset") =>
            /\ curAttempt_' = 0
            /\ ~bIsAllFailed_'
            /\ failedCalls' = 0
            /\ UNCHANGED <<attemps_, portMap_, failedIkev2Counter_,
                           isFailedIkev2CounterAlreadyIncremented_, incCount,
                           successConnectionProtocol, selectedNode, bStarted_>>
       /\ (PutFailedStep /\ PlanLen >= 1) =>
            (bIsAllFailed_' <=> curAttempt_ = PlanLen - 1)
       /\ (PutFailedStep /\ PlanLen >= 1 /\ ~bIsAllFailed_') => curAttempt_' = curAttempt_ + 1
      ]_vars

\* a reset of a failed session that had incremented the counter
C9_Witness ==
    /\ lastOp.name = "reset"
    /\ curAttempt_ = 0
    /\ ~bIsAllFailed_
    /\ isFailedIkev2CounterAlreadyIncremented_
    /\ incCount = 1
    /\ selectedNode # 0
    /\ PlanLen >= 4

\* C10: with the proxy enabled no attempt of the plan is OpenVPN-UDP, whatever
\* is remembered; with the proxy disabled OpenVPN-UDP is not dropped.
C10_NoUdpWithProxy ==
    Constructed =>
        /\ ctorArgs.isProxyEnabled => OPENVPN_UDP \notin PlanProtocols
        /\ (~ctorArgs.isProxyEnabled
              /\ \E i \in 1..Len(portMap_) : portMap_[i].protocol = OPENVPN_UDP)
           => OPENVPN_UDP \in PlanProtocols

C10_Witness ==
    /\ Constructed
    /\ ctorArgs.isProxyEnabled
    /\ \E i \in 1..Len(portMap_) : portMap_[i].protocol = OPENVPN_UDP
    /\ Remembered = OPENVPN_UDP
    /\ PlanLen >= 2

----------------------------------------------------------------------------
\* the ports listed in the PortMap entry of a protocol
PortsOfEntry(protocol) ==
    portMap_[CHOOSE i \in 1..Len(portMap_) : portMap_[i].protocol = protocol].ports

\* how many attempts of the protocol at the cursor precede the cursor in the plan
EarlierAttemptsOfProtocol ==
    Cardinality({ j \in 1..curAttempt_ :
                    attemps_[j].protocol = attemps_[curAttempt_ + 1].protocol })

\* C11 as claimed: over the successive attempts of one protocol in a session the
\* descriptor yields the ports of that protocol's entry in their listed order.
C11_Claimed_PortsInOrder ==
    (Constructed /\ CursorValid) =>
        LET ports == PortsOfEntry(attemps_[curAttempt_ + 1].protocol)
            k == EarlierAttemptsOfProtocol
        IN k < Len(ports) => getCurrentConnectionSettings.port = ports[k + 1]

\* C11 amended: every attempt of a protocol yields the first port listed in
\* that protocol's PortMap entry; the later ports of the entry are never used.
C11_FirstPortOfEntryAlways ==
    (Constructed /\ CursorValid) =>
        /\ getCurrentConnectionSettings.protocol = attemps_[curAttempt_ + 1].protocol
        /\ getCurrentConnectionSettings.port =
              Head(PortsOfEntry(attemps_[curAttempt_ + 1].protocol))

\* the second attempt of WireGuard, whose entry lists two ports, after the
\* remembered protocol was moved
C11_Witness ==
    /\ lastOp.name = "putFailedConnection"
    /\ CursorValid
    /\ attemps_[curAttempt_ + 1].protocol = WIREGUARD
    /\ EarlierAttemptsOfProtocol = 1
    /\ Remembered = WIREGUARD
    /\ Len(portMap_) = 3
    /\ portMap_[3].protocol = WIREGUARD
    /\ getCurrentConnectionSettings.port = 51820


(***************************************************************************)
(* Vocabulary of the properties of the prober.                             *)
(***************************************************************************)
NonDecreasing(s) == \A i \in 1..(Len(s) - 1) : s[i] <= s[i + 1]

IsPrefix(s, t) == Len(s) <= Len(t) /\ \A i \in 1..Len(s) : s[i] = t[i]

NoSuccessResult == \A i \in 1..Len(runResults) : ~runResults[i].success

\* the first run of a prober under the default policy, not stopped, without a success
DefaultFailingRun ==
    /\ extraConfig = NoExtraConfig
    /\ starts = 1
    /\ startedSinceStop
    /\ NoSuccessResult

TestsFinished == runResults # << >>

\* C12 as stated: with the default policy and every answer a failure, a run issues
\* exactly 3 probes with non-decreasing timeouts, none above PING_TEST_TIMEOUT_3,
\* then one failure result with an empty payload, whenever the answers arrive.
C12_Claimed_ThreeProbesWheneverAnswered ==
    DefaultFailingRun =>
        /\ Len(runProbes) <= 3
        /\ NonDecreasing(runProbes)
        /\ \A i \in 1..Len(runProbes) : runProbes[i] <= PING_TEST_TIMEOUT_3
        /\ TestsFinished => /\ Len(runProbes) = 3
                            /\ runResults = <<Result(FALSE, "")>>

\* C12 amended: with the default policy, every answer a failure and no answer
\* delivered before the timeout of its attempt has elapsed, a run issues exactly the
\* 3 probes with the timeouts PING_TEST_TIMEOUT_1, doubled while below the cap, in
\* non-decreasing order, and then one failure result with an empty payload; whenever the answers arrive, no timeout exceeds PING_TEST_TIMEOUT_3.
C12_ThreeProbesWhenAnsweredLate ==
    DefaultFailingRun =>
        /\ \A i \in 1..Len(runProbes) : runProbes[i] > 0 /\ runProbes[i] <= PING_TEST_TIMEOUT_3
        /\ ~earlyFailure =>
              /\ IsPrefix(runProbes, DefaultTimeouts(0, 3, PING_TEST_TIMEOUT_1))
              /\ NonDecreasing(runProbes)
              /\ TestsFinished => /\ Len(runProbes) = 3
                                  /\ runResults = <<Result(FALSE, "")>>

C12_Witness ==
    /\ DefaultFailingRun
    /\ ~earlyFailure
    /\ Len(runProbes) = 3
    /\ runResults = <<Result(FALSE, "")>>


\* the success results emitted by the step just taken
SuccessResults == { proberOut.emitted[i] : i \in { j \in 1..Len(proberOut.emitted) :
                                                     proberOut.emitted[j].success } }

\* the result r reports the IP address of the answer handled by the step just taken
FromIpAnswer(r) ==
    /\ proberOut.op = "onPingTestAnswer"
    /\ proberOut.answer.retCode = SERVER_RETURN_SUCCESS
    /\ isIp(r.ipAddress)
    /\ r.ipAddress = trimmed(proberOut.answer.data)

\* C13 as stated: under every configuration a success result is emitted only for an
\* answer with a success return code and an IP address as payload, and carries that
\* IP address.
C13_Claimed_SuccessOnlyFromIpAnswer ==
    \A r \in SuccessResults : FromIpAnswer(r)

\* C13 amended: a success result is emitted only for an answer with a success return
\* code whose trimmed payload is an IP address, and carries that IP address, except
\* under an override attempt count of 0, where the skipped-tests notification emits
\* a success result with an empty payload and no probe is issued.
C13_SuccessFromIpAnswerOrSkipped ==
    \A r \in SuccessResults :
        \/ FromIpAnswer(r)
        \/ /\ proberOut.op = "onTestsSkipped"
           /\ extraConfig.attempts = Param(0)
           /\ r.ipAddress = ""
           /\ proberOut.pings = << >>

C13_Witness ==
    /\ proberOut.op = "onPingTestAnswer"
    /\ proberOut.answer.data = " 10.0.0.1\n"
    /\ proberOut.emitted = <<Result(TRUE, "10.0.0.1")>>

C13_WitnessSkipped ==
    /\ proberOut.op = "onTestsSkipped"
    /\ proberOut.emitted = <<Result(TRUE, "")>>
    /\ runProbes = << >>


\* C14: after stopTests has returned and until the next startTests, the prober
\* issues no probe and emits no result, whether the stop came during the start
\* delay, during the retry delay or while a skipped-tests notification was pending.
C14_QuietAfterStop ==
    ~startedSinceStop => proberOut.pings = << >> /\ proberOut.emitted = << >>


\* C15: stopTests on a prober that is not running sends no cancel request, emits
\* no result and leaves the running flag, the current attempt and the command id
\* unchanged; stopTests on a running prober cancels the outstanding probe once and
\* leaves the prober not running, so a second stopTests in a row cancels nothing.
C15_StopWhenIdleIsNoOp ==
    [][ proberOut'.op = "stopTests" =>
          /\ ~bRunning_'
          /\ proberOut'.emitted = << >>
          /\ UNCHANGED <<curTest_, cmdId_>>
          /\ IF bRunning_
             THEN proberOut'.cancels = <<cmdId_>>
             ELSE /\ proberOut'.cancels = << >>
                  /\ UNCHANGED <<bRunning_, outstanding, timeouts_, doCustomTunnelTest_>> ]_vars

\* stopTests was called on a prober stopped before: a run was started, has no
\* result, and the step cancelled nothing
C15_Witness ==
    /\ proberOut.op = "stopTests"
    /\ proberOut.cancels = << >>
    /\ runProbes # << >>
    /\ runResults = << >>
    /\ answerQueue = << >>
    /\ nextPingTimers = 0


(***************************************************************************)
(* WireGuardConnection (Windows).  The caller's thread runs startConnect   *)
(* and startDisconnect, the worker thread runs run() and, inside exec(),   *)
(* the timer callbacks.  The helper, the service control manager, the ring *)
(* log and the header of the class are not part of the sources at hand:    *)
(* what they return is chosen by the environment.                          *)
(***************************************************************************)
CONNECTED == "connected"
DISCONNECTED == "disconnected"
STATISTICS_UPDATED == "statisticsUpdated"

EXE_VERIFY_WIREGUARD_ERROR == "EXE_VERIFY_WIREGUARD_ERROR"
WIREGUARD_CONNECTION_ERROR == "WIREGUARD_CONNECTION_ERROR"
WIREGUARD_ADAPTER_SETUP_FAILED == "WIREGUARD_ADAPTER_SETUP_FAILED"
STATE_TIMEOUT_FOR_AUTOMATIC == "STATE_TIMEOUT_FOR_AUTOMATIC"

\* the reasons of the error signal
ErrorEvents == {EXE_VERIFY_WIREGUARD_ERROR, WIREGUARD_CONNECTION_ERROR,
                WIREGUARD_ADAPTER_SETUP_FAILED, STATE_TIMEOUT_FOR_AUTOMATIC}

\* the signals kept per run
RunEvents(trace) ==
    SelectSeq(trace, LAMBDA e : e \in ErrorEvents \cup {CONNECTED, DISCONNECTED})

\* IHelper::ExecuteError
EXECUTE_SUCCESS == "EXECUTE_SUCCESS"
EXECUTE_VERIFY_ERROR == "EXECUTE_VERIFY_ERROR"
EXECUTE_ERROR == "EXECUTE_ERROR"
ExecuteErrors == {EXECUTE_SUCCESS, EXECUTE_VERIFY_ERROR, EXECUTE_ERROR}

\* what helper_->getWireGuardStatus can report
ACTIVE == "ACTIVE"
WireGuardStatus(ok, state, lastHandshake) ==
    [ok |-> ok, state |-> state, lastHandshake |-> lastHandshake]

WireGuardStatuses == {WireGuardStatus(FALSE, "NONE", 0), WireGuardStatus(TRUE, "NONE", 0),
                      WireGuardStatus(TRUE, ACTIVE, 0), WireGuardStatus(TRUE, ACTIVE, 1)}

\* what the ring log shows at a poll
LogReads == [isTunnelRunning : BOOLEAN, handshakeFailed : BOOLEAN]

\* WinUtils::haveInternetConnectivity and the age of the last handshake in seconds
Connectivity == {"unknown", "yes", "no"}
HandshakeAges == {179, 180, 200}

\* the fields a callback can change, and the signals and calls of the step
WgState == [connected |-> connectedSignalEmited_, exited |-> exited, trace |-> << >>]

emit(w, event) == [w EXCEPT !.trace = Append(@, event)]

\* faulty variant: the signal is not emitted
emitDisconnected_Silent(w) == w

\* emit disconnected()
emitDisconnected(w) == emit(w, DISCONNECTED)

\* QThread::quit
quit(w) == [w EXCEPT !.exited = TRUE]

\* QThread::isRunning
isRunning == wgPc # "idle"

onTunnelConnectedImpl(w) == emit([w EXCEPT !.connected = TRUE], CONNECTED)

\* faulty variant: the marker is not consulted
NotYetConnected_Ignored(connected) == TRUE

\* !connectedSignalEmited_
NotYetConnected(connected) == ~connected

onGetWireguardStatsImpl(w, status) ==
    IF status.ok /\ status.state = ACTIVE
    THEN emit(IF NotYetConnected(w.connected) /\ status.lastHandshake > 0
              THEN onTunnelConnectedImpl(w) ELSE w,
              STATISTICS_UPDATED)
    ELSE w

\* faulty variant: the threshold itself does not count as stale
IsStale_Above(secsTo) == secsTo > 3 * 60

\* secsTo >= 3*60
IsStale(secsTo) == secsTo >= 3 * 60

onWireguardHandshakeFailureImpl(w, haveInternet, status, secsTo) ==
    IF haveInternet = "unknown" THEN w
    ELSE IF haveInternet = "yes"
    THEN IF status.ok /\ status.state = ACTIVE /\ status.lastHandshake > 0 /\ IsStale(secsTo)
         THEN quit(w) ELSE w
    ELSE quit(w)

onGetWireguardLogUpdatesImpl(w, log, haveInternet, status, secsTo) ==
    LET w1 == IF NotYetConnected(w.connected) /\ log.isTunnelRunning
              THEN onTunnelConnectedImpl(w) ELSE w
    IN IF log.isTunnelRunning /\ log.handshakeFailed
       THEN onWireguardHandshakeFailureImpl(w1, haveInternet, status, secsTo)
       ELSE w1

onAutomaticConnectionTimeoutImpl(w) ==
    IF NotYetConnected(w.connected) THEN quit(emit(w, STATE_TIMEOUT_FOR_AUTOMATIC)) ELSE w

\* faulty variant: a service that is not open counts as running
StatusWhenNotOpen_Running == SERVICE_RUNNING

\* DWORD dwStatus = SERVICE_STOPPED
StatusWhenNotOpen == SERVICE_STOPPED

\* queryThrows: queryServiceStatus throws and dwStatus keeps its initial value
isDisconnected(queryThrows) ==
    LET dwStatus == IF serviceOpen /\ ~queryThrows THEN serviceStatus ELSE StatusWhenNotOpen
    IN dwStatus = SERVICE_STOPPED \/ dwStatus = SERVICE_STOP_PENDING

\* the step op has run and left w; newRun: it started a run; inRun: it is part of one;
\* reads: what it has read if it was a log poll of the event loop
WgStepReading(op, w, newRun, inRun, reads) ==
    /\ wgIn' = reads
    /\ connectedSignalEmited_' = w.connected
    /\ exited' = w.exited
    /\ wgOut' = WgOut(op, w.trace)
    /\ wgEvents' = IF newRun THEN << >>
                   ELSE IF inRun THEN wgEvents \o RunEvents(w.trace) ELSE wgEvents
    /\ UNCHANGED outsideWg

WgStep(op, w, newRun, inRun) == WgStepReading(op, w, newRun, inRun, NoReads)

\* the locals of run(), the helper and the service control manager
runLocals == <<serviceStarted, disableDNSLeakProtection, timeoutArmed>>

platform == <<wireGuardInstalled, serviceOpen, serviceStatus, dnsLeaksProtection>>


\* faulty variant: startConnect does not wait for a running worker
WaitsForWorker_Never(running) == FALSE

\* if (isRunning()) { stopRequested_ = true; quit(); wait(); }
WaitsForWorker(running) == running

\* startConnect from the reset of the marker on; QThread::start does nothing on a
\* running thread and clears the exit flag otherwise
StartConnectProceeds(isAutomaticConnectionMode) ==
    /\ WgStep("startConnect",
              [WgState EXCEPT !.connected = FALSE, !.exited = IF isRunning THEN @ ELSE FALSE],
              TRUE, TRUE)
    /\ isAutomaticConnectionMode_' = isAutomaticConnectionMode
    /\ stopRequested_' = FALSE
    /\ wgPc' = IF isRunning THEN wgPc ELSE "startWireGuard"
    /\ callerWaiting' = FALSE
    /\ pendingAutomatic' = FALSE
    /\ UNCHANGED <<runLocals, platform>>

startConnect ==
    /\ ~callerWaiting
    /\ \E isAutomaticConnectionMode \in BOOLEAN :
          IF WaitsForWorker(isRunning)
          THEN /\ WgStep("wait", quit(WgState), FALSE, FALSE)
               /\ stopRequested_' = TRUE
               /\ callerWaiting' = TRUE
               /\ pendingAutomatic' = isAutomaticConnectionMode
               /\ UNCHANGED <<wgPc, isAutomaticConnectionMode_, runLocals, platform>>
          ELSE StartConnectProceeds(isAutomaticConnectionMode)

\* wait() returns: the worker has left run()
startConnectAfterWait ==
    /\ callerWaiting
    /\ ~isRunning
    /\ StartConnectProceeds(pendingAutomatic)

startDisconnect ==
    /\ ~callerWaiting
    /\ \E queryThrows \in BOOLEAN :
          IF isRunning
          THEN /\ WgStep("startDisconnect", quit(WgState), FALSE, FALSE)
               /\ stopRequested_' = TRUE
          ELSE /\ WgStep("startDisconnect",
                         IF isDisconnected(queryThrows) THEN emitDisconnected(WgState)
                                                        ELSE WgState,
                         FALSE, FALSE)
               /\ UNCHANGED stopRequested_
    /\ UNCHANGED <<wgPc, isAutomaticConnectionMode_, callerWaiting, pendingAutomatic,
                   runLocals, platform>>

\* run(), up to the return after a failed startWireGuard
RunStartWireGuard ==
    /\ wgPc = "startWireGuard"
    /\ \E err \in ExecuteErrors :
          LET w == emit(WgState, "helper.startWireGuard")
          IN IF err # EXECUTE_SUCCESS
             THEN /\ WgStep("run", emitDisconnected(emit(w, IF err = EXECUTE_VERIFY_ERROR
                                                             THEN EXE_VERIFY_WIREGUARD_ERROR
                                                             ELSE WIREGUARD_CONNECTION_ERROR)),
                            FALSE, TRUE)
                  /\ wgPc' = "idle"
                  /\ UNCHANGED wireGuardInstalled
             ELSE /\ WgStep("run", w, FALSE, TRUE)
                  /\ wgPc' = "generateConfigFile"
                  /\ wireGuardInstalled' = TRUE
    /\ UNCHANGED <<stopRequested_, isAutomaticConnectionMode_, callerWaiting, pendingAutomatic,
                   runLocals, serviceOpen, serviceStatus, dnsLeaksProtection>>

\* the step with this trace has made the call
Calls(call, trace) == \E i \in 1..Len(trace) : trace[i] = call

\* faulty variant: no scope guard
stopWireGuardGuard_Dismissed(w) == w

\* auto stopWireGuard = qScopeGuard([&] { closeSCM(); helper_->stopWireGuard(); })
stopWireGuardGuard(w) == emit(emit(w, "closeSCM"), "helper.stopWireGuard")

\* run(), generateConfigFile; on failure the scope guard stops the service on return
RunGenerateConfigFile ==
    /\ wgPc = "generateConfigFile"
    /\ \E generated \in BOOLEAN :
          IF ~generated
          THEN LET w == stopWireGuardGuard(
                                emitDisconnected(emit(WgState, WIREGUARD_CONNECTION_ERROR)))
               IN /\ WgStep("run", w, FALSE, TRUE)
                  /\ wgPc' = "idle"
                  /\ wireGuardInstalled' = (wireGuardInstalled /\ ~Calls("helper.stopWireGuard", w.trace))
                  /\ serviceOpen' = (serviceOpen /\ ~Calls("closeSCM", w.trace))
          ELSE /\ WgStep("run", WgState, FALSE, TRUE)
               /\ wgPc' = "startService"
               /\ UNCHANGED <<wireGuardInstalled, serviceOpen>>
    /\ UNCHANGED <<stopRequested_, isAutomaticConnectionMode_, callerWaiting, pendingAutomatic,
                   runLocals, serviceStatus, dnsLeaksProtection>>

\* faulty variant: the timeout is armed in every mode
ArmsTimeout_Always(automatic) == TRUE

\* if (isAutomaticConnectionMode_) { .. timerTimeoutForAutomatic->start(kTimeoutForAutomatic); }
ArmsTimeout(automatic) == automatic

\* faulty variant: the timeout timer is left as it is when exec() has returned
StopsTimeout_Leaves(armed) == armed

\* after exec(): timerTimeoutForAutomatic is disconnected and stopped
StopsTimeout(armed) == FALSE

\* run(), from startService to the call of exec(), or past the final statistics poll
\* when a stop was requested before
RunStartService ==
    /\ wgPc = "startService"
    /\ \E started \in BOOLEAN, open \in BOOLEAN, log \in LogReads,
          haveInternet \in Connectivity, secsTo \in HandshakeAges,
          status1 \in WireGuardStatuses, status2 \in WireGuardStatuses,
          status3 \in WireGuardStatuses :
          IF started
          THEN LET w0 == emit(WgState, "helper.enableDnsLeaksProtection")
                   w1 == onGetWireguardLogUpdatesImpl(w0, log, haveInternet, status1, secsTo)
                   w2 == IF ~w1.connected THEN onGetWireguardStatsImpl(w1, status2) ELSE w1
               IN /\ serviceStarted' = TRUE
                  /\ disableDNSLeakProtection' = TRUE
                  /\ dnsLeaksProtection' = TRUE
                  /\ serviceOpen' = TRUE
                  /\ serviceStatus' = SERVICE_RUNNING
                  /\ IF ~stopRequested_
                     THEN /\ WgStep("run", w2, FALSE, TRUE)
                          /\ timeoutArmed' = ArmsTimeout(isAutomaticConnectionMode_)
                          /\ wgPc' = "exec"
                     ELSE /\ WgStep("run", onGetWireguardStatsImpl(w2, status3), FALSE, TRUE)
                          /\ timeoutArmed' =
                                 StopsTimeout(ArmsTimeout(isAutomaticConnectionMode_))
                          /\ wgPc' = "teardown"
          ELSE /\ WgStep("run", WgState, FALSE, TRUE)
               /\ serviceStarted' = FALSE
               /\ disableDNSLeakProtection' = FALSE
               /\ serviceOpen' = open
               /\ wgPc' = "teardown"
               /\ UNCHANGED <<timeoutArmed, serviceStatus, dnsLeaksProtection>>
    /\ UNCHANGED <<stopRequested_, isAutomaticConnectionMode_, callerWaiting, pendingAutomatic,
                   wireGuardInstalled>>

\* exec() returns after quit(): the timers are stopped, the final statistics are read
RunExecReturns ==
    /\ wgPc = "exec"
    /\ exited
    /\ \E status \in WireGuardStatuses :
          WgStep("run", onGetWireguardStatsImpl([WgState EXCEPT !.exited = FALSE], status),
                 FALSE, TRUE)
    /\ timeoutArmed' = StopsTimeout(timeoutArmed)
    /\ wgPc' = "teardown"
    /\ UNCHANGED <<stopRequested_, isAutomaticConnectionMode_, callerWaiting, pendingAutomatic,
                   serviceStarted, disableDNSLeakProtection, platform>>

\* run(), from closeSCM to its end
RunTeardown ==
    /\ wgPc = "teardown"
    /\ \E stopped \in BOOLEAN, configFileExists \in BOOLEAN, adapterSetupFailed \in BOOLEAN :
          LET wa == emit(emit(WgState, "closeSCM"), "helper.stopWireGuard")
              w0 == IF ~stopped /\ configFileExists THEN emit(wa, "QFile::remove") ELSE wa
              w1 == IF adapterSetupFailed THEN emit(w0, WIREGUARD_ADAPTER_SETUP_FAILED)
                    ELSE IF ~serviceStarted THEN emit(w0, WIREGUARD_CONNECTION_ERROR)
                    ELSE w0
              w2 == emitDisconnected(w1)
              w3 == IF disableDNSLeakProtection
                    THEN emit(w2, "helper.disableDnsLeaksProtection") ELSE w2
          IN /\ WgStep("run", w3, FALSE, TRUE)
             /\ serviceStatus' = IF stopped THEN SERVICE_STOPPED ELSE serviceStatus
    /\ serviceOpen' = FALSE
    /\ wireGuardInstalled' = FALSE
    /\ dnsLeaksProtection' = IF disableDNSLeakProtection THEN FALSE ELSE dnsLeaksProtection
    /\ serviceStarted' = FALSE
    /\ disableDNSLeakProtection' = FALSE
    /\ wgPc' = "idle"
    /\ UNCHANGED <<stopRequested_, isAutomaticConnectionMode_, callerWaiting, pendingAutomatic,
                   timeoutArmed>>

\* the callbacks run in the event loop of the worker, until quit() ends the loop
InEventLoop == wgPc = "exec" /\ ~exited

onGetWireguardStats ==
    /\ InEventLoop
    /\ \E status \in WireGuardStatuses :
          WgStep("onGetWireguardStats", onGetWireguardStatsImpl(WgState, status), FALSE, TRUE)
    /\ UNCHANGED <<wgPc, stopRequested_, isAutomaticConnectionMode_, callerWaiting,
                   pendingAutomatic, runLocals, platform>>

onCheckServiceRunning ==
    /\ InEventLoop
    /\ \E queryThrows \in BOOLEAN :
          WgStep("onCheckServiceRunning",
                 IF isDisconnected(queryThrows) THEN quit(WgState) ELSE WgState, FALSE, TRUE)
    /\ UNCHANGED <<wgPc, stopRequested_, isAutomaticConnectionMode_, callerWaiting,
                   pendingAutomatic, runLocals, platform>>

onGetWireguardLogUpdates ==
    /\ InEventLoop
    /\ \E log \in LogReads, haveInternet \in Connectivity, secsTo \in HandshakeAges,
          status \in WireGuardStatuses :
          WgStepReading("onGetWireguardLogUpdates",
                        onGetWireguardLogUpdatesImpl(WgState, log, haveInternet, status, secsTo),
                        FALSE, TRUE, Reads(log, haveInternet, status, secsTo))
    /\ UNCHANGED <<wgPc, stopRequested_, isAutomaticConnectionMode_, callerWaiting,
                   pendingAutomatic, runLocals, platform>>

\* the single-shot timer fires
onAutomaticConnectionTimeout ==
    /\ InEventLoop
    /\ timeoutArmed
    /\ WgStep("onAutomaticConnectionTimeout", onAutomaticConnectionTimeoutImpl(WgState),
              FALSE, TRUE)
    /\ timeoutArmed' = FALSE
    /\ UNCHANGED <<wgPc, stopRequested_, isAutomaticConnectionMode_, callerWaiting,
                   pendingAutomatic, serviceStarted, disableDNSLeakProtection, platform>>

\* the WireGuard service stops on its own
ServiceStops ==
    /\ wgPc = "exec"
    /\ serviceStatus = SERVICE_RUNNING
    /\ \E status \in {SERVICE_STOP_PENDING, SERVICE_STOPPED} : serviceStatus' = status
    /\ WgStep("service", WgState, FALSE, FALSE)
    /\ UNCHANGED <<wgPc, stopRequested_, isAutomaticConnectionMode_, callerWaiting,
                   pendingAutomatic, runLocals, wireGuardInstalled, serviceOpen,
                   dnsLeaksProtection>>

InitWg ==
    /\ PolicyAbsent
    /\ ProberConstructed(NoExtraConfig)
    /\ WgConstructed

NextWg ==
    \/ startConnect
    \/ startConnectAfterWait
    \/ startDisconnect
    \/ RunStartWireGuard
    \/ RunGenerateConfigFile
    \/ RunStartService
    \/ RunExecReturns
    \/ RunTeardown
    \/ onGetWireguardStats
    \/ onCheckServiceRunning
    \/ onGetWireguardLogUpdates
    \/ onAutomaticConnectionTimeout
    \/ ServiceStops

SpecWg == InitWg /\ [][NextWg]_vars


(***************************************************************************)
(* Vocabulary of the properties of the WireGuard connection.               *)
(***************************************************************************)
\* how many events of the current run are in the set events
CountEvents(events) == Cardinality({ i \in 1..Len(wgEvents) : wgEvents[i] \in events })

TerminalOutcomes == CountEvents(ErrorEvents \cup {CONNECTED})

RunEnded == CountEvents({DISCONNECTED}) > 0

\* C16: a run emits exactly one terminal outcome, one connected event or one error
\* event: never both, never two errors, and not neither once the run has ended.
C16_OneTerminalOutcome ==
    /\ TerminalOutcomes <= 1
    /\ RunEnded => TerminalOutcomes = 1


\* C17: startDisconnect on a connection that was never started emits disconnected;
\* more generally, while no worker is running the service is not open, its status is
\* taken as stopped, and every startDisconnect emits disconnected (and nothing else).
C17_StopWhenIdleEmitsDisconnected ==
    [][ /\ ~isRunning => ~serviceOpen
        /\ (wgOut'.op = "startDisconnect" /\ ~isRunning) =>
              /\ wgOut'.trace = <<DISCONNECTED>>
              /\ ~isRunning' ]_vars

\* startDisconnect on a connection that was never started has emitted disconnected
C17_Witness ==
    /\ wgOut = WgOut("startDisconnect", <<DISCONNECTED>>)
    /\ wgEvents = << >>
    /\ ~isRunning
    /\ ~stopRequested_


InTrace(event, trace) == \E i \in 1..Len(trace) : trace[i] = event

\* C18: startConnect called while a run is active requests its cancellation and
\* waits; the stop flag and the connected marker are reset and the new run is
\* started only when no worker is running, and startWireGuard is called only after
\* the stopWireGuard of the previous run.
C18_OneRunAtATime ==
    [][ /\ wgOut'.op = "wait" =>
              /\ isRunning
              /\ stopRequested_' /\ exited' /\ callerWaiting'
              /\ UNCHANGED <<wgPc, connectedSignalEmited_, isAutomaticConnectionMode_>>
        /\ wgOut'.op = "startConnect" =>
              /\ ~isRunning
              /\ wgPc' = "startWireGuard"
              /\ ~stopRequested_' /\ ~connectedSignalEmited_' /\ ~callerWaiting'
        /\ (stopRequested_ /\ ~stopRequested_') => ~isRunning
        /\ (connectedSignalEmited_ /\ ~connectedSignalEmited_') => ~isRunning
        /\ InTrace("helper.startWireGuard", wgOut'.trace) => ~wireGuardInstalled ]_vars

\* startConnect was called during a run that holds the WireGuard service and waits
C18_Witness ==
    /\ callerWaiting
    /\ isRunning
    /\ wireGuardInstalled
    /\ stopRequested_


\* how often event occurs in trace
Occurrences(event, trace) == Cardinality({ i \in 1..Len(trace) : trace[i] = event })

\* C19: within one run connected is emitted at most once, whichever poll sees the
\* tunnel up first and however the polls interleave afterwards: a step emits it only
\* with the marker clear and sets the marker, and only startConnect clears the marker.
C19_ConnectedAtMostOncePerRun ==
    [][ /\ Occurrences(CONNECTED, wgEvents') <= 1
        /\ Occurrences(CONNECTED, wgOut'.trace) <= 1
        /\ InTrace(CONNECTED, wgOut'.trace) =>
              ~connectedSignalEmited_ /\ connectedSignalEmited_'
        /\ (connectedSignalEmited_ /\ ~connectedSignalEmited_') => wgOut'.op = "startConnect" ]_vars

\* after connected was emitted, a statistics poll ran in the same run without
\* emitting it again
C19_Witness ==
    /\ wgOut = WgOut("onGetWireguardStats", <<STATISTICS_UPDATED>>)
    /\ connectedSignalEmited_
    /\ Occurrences(CONNECTED, wgEvents) = 1


\* C20: STATE_TIMEOUT_FOR_AUTOMATIC is emitted at most once per run, only by the
\* single-shot timeout, only in automatic mode and only before any connected event
\* of the run, and then the worker is asked to quit; the timeout is never armed in
\* manual mode, and a timeout that fires after connected emits nothing and asks for
\* no stop.
C20_TimeoutErrorOnceBeforeConnected ==
    [][ /\ Occurrences(STATE_TIMEOUT_FOR_AUTOMATIC, wgEvents') <= 1
        /\ InTrace(STATE_TIMEOUT_FOR_AUTOMATIC, wgOut'.trace) =>
              /\ wgOut'.op = "onAutomaticConnectionTimeout"
              /\ ~InTrace(CONNECTED, wgEvents)
              /\ exited'
        /\ wgOut'.op = "onAutomaticConnectionTimeout" =>
              /\ isAutomaticConnectionMode_
              /\ ~timeoutArmed'
              /\ IF connectedSignalEmited_
                 THEN wgOut'.trace = << >> /\ UNCHANGED exited
                 ELSE wgOut'.trace = <<STATE_TIMEOUT_FOR_AUTOMATIC>>
        /\ timeoutArmed' => isAutomaticConnectionMode_' ]_vars

\* the timeout has fired before connected: the error is emitted and quit() called
C20_Witness ==
    /\ wgOut = WgOut("onAutomaticConnectionTimeout", <<STATE_TIMEOUT_FOR_AUTOMATIC>>)
    /\ exited
    /\ isAutomaticConnectionMode_

\* the timeout has fired after connected: nothing is emitted
C20_WitnessAfterConnected ==
    /\ wgOut = WgOut("onAutomaticConnectionTimeout", << >>)
    /\ connectedSignalEmited_
    /\ ~exited


\* the log poll just taken read state ACTIVE with a handshake on record
ReadActiveWithHandshake ==
    wgIn.status.ok /\ wgIn.status.state = ACTIVE /\ wgIn.status.lastHandshake > 0

\* C21 as stated: in a connected run with state ACTIVE a stop is requested whenever
\* the last handshake is 180 seconds or more in the past, on staleness alone, and
\* none is requested at 179 seconds or less with Internet connectivity present.
C21_Claimed_StaleAloneQuits ==
    [][ (wgOut'.op = "onGetWireguardLogUpdates" /\ connectedSignalEmited_'
         /\ ReadActiveWithHandshake') =>
            /\ wgIn'.secsTo >= 180 => exited'
            /\ (wgIn'.secsTo <= 179 /\ wgIn'.haveInternet = "yes") => ~exited' ]_vars

\* C21 amended: a log poll of the event loop asks the worker to quit exactly when the
\* log shows a running tunnel with a failed handshake and either Windows reports no
\* Internet connectivity, or it reports connectivity, the status read is ACTIVE with
\* a handshake on record and that handshake is 180 seconds or more in the past.
C21_StaleQuitsAfterLoggedFailure ==
    [][ wgOut'.op = "onGetWireguardLogUpdates" =>
            (exited' <=>
                /\ wgIn'.log.isTunnelRunning
                /\ wgIn'.log.handshakeFailed
                /\ \/ wgIn'.haveInternet = "no"
                   \/ /\ wgIn'.haveInternet = "yes"
                      /\ ReadActiveWithHandshake'
                      /\ wgIn'.secsTo >= 180) ]_vars

\* a log poll saw a failed handshake 180 seconds after the last one, with
\* connectivity, and asked the worker to quit
C21_Witness ==
    /\ wgOut.op = "onGetWireguardLogUpdates"
    /\ wgIn.log.handshakeFailed
    /\ wgIn.haveInternet = "yes"
    /\ wgIn.secsTo = 180
    /\ connectedSignalEmited_
    /\ exited


\* the worker leaves run() in this step
WorkerExits == isRunning /\ ~isRunning'

\* C22: in a run whose startWireGuard succeeded, stopWireGuard is invoked exactly
\* once before the worker exits, on every path: it is invoked only while the service
\* of this run is installed and not yet stopped, it is invoked in the step in which
\* the worker exits at the latest, and no worker is running while it is due.
C22_StopWireGuardOncePerRun ==
    [][ /\ Calls("helper.stopWireGuard", wgOut'.trace) =>
              /\ wireGuardInstalled
              /\ ~wireGuardInstalled'
              /\ Occurrences("helper.stopWireGuard", wgOut'.trace) = 1
        /\ (WorkerExits /\ wireGuardInstalled) => Calls("helper.stopWireGuard", wgOut'.trace)
        /\ ~isRunning' => ~wireGuardInstalled' ]_vars

\* the worker has exited through the scope guard after a failed generateConfigFile
C22_Witness ==
    /\ ~isRunning
    /\ wgOut = WgOut("run", <<WIREGUARD_CONNECTION_ERROR, DISCONNECTED, "closeSCM",
                              "helper.stopWireGuard">>)

\* the worker has exited after a stop request with the service started
C22_WitnessStopRequested ==
    /\ ~isRunning
    /\ stopRequested_
    /\ Calls("helper.stopWireGuard", wgOut.trace)
    /\ Calls("helper.disableDnsLeaksProtection", wgOut.trace)


\* the steps of teardown: closing the service control manager, stopping the service
\* through the helper, removing the config file, releasing DNS-leak protection
TeardownCalls == {"closeSCM", "helper.stopWireGuard", "QFile::remove",
                  "helper.disableDnsLeaksProtection"}

\* C24: in every run disconnected is emitted only after teardown is complete: no
\* stopWireGuard, no handling of the config file and no release of DNS-leak
\* protection follows the disconnected event of a run, on the early error paths as
\* well as on the normal path.
C24_DisconnectedAfterTeardown ==
    wgOut.op = "run" =>
        \A i \in 1..Len(wgOut.trace) : \A j \in 1..Len(wgOut.trace) :
            (wgOut.trace[i] = DISCONNECTED /\ i < j) => wgOut.trace[j] \notin TeardownCalls


(***************************************************************************)
(* FinishActiveConnections (Windows): what a fresh session runs before it  *)
(* connects, on whatever an earlier run of the application left behind.    *)
(***************************************************************************)
MaxOpenVpnExecutables == 2
MaxRasConnections == 2

\* OpenVpnVersionController::getAvailableOpenVpnExecutables: the installed executables
getAvailableOpenVpnExecutables == 1..MaxOpenVpnExecutables

\* a helper or platform call with its argument (0 when it has none)
Call(name, arg) == [name |-> name, arg |-> arg]

\* the platform as finishAllActiveConnections sees and changes it
FinishState ==
    [openVpnProcesses |-> openVpnProcesses, activeRasConnections |-> activeRasConnections,
     wireGuardProcess |-> wireGuardProcess, hostsAdded |-> hostsAdded,
     dnsLeaksProtection |-> dnsLeaksProtection, wireGuardInstalled |-> wireGuardInstalled,
     trace |-> << >>]

called(p, name, arg) == [p EXCEPT !.trace = Append(@, Call(name, arg))]

\* helper->executeTaskKill(strExe) for an OpenVPN executable
executeTaskKill(p, exe) ==
    [called(p, "helper.executeTaskKill", exe) EXCEPT !.openVpnProcesses = @ \ {exe}]

RECURSIVE killEach(_, _)
killEach(p, exe) ==
    IF exe \notin getAvailableOpenVpnExecutables THEN p
    ELSE killEach(executeTaskKill(p, exe), exe + 1)

finishOpenVpnActiveConnections_win(p) == killEach(p, 1)

\* IKEv2ConnectionDisconnectLogic_win::blockingDisconnect(hRas)
blockingDisconnect(p, hRas) ==
    [called(p, "blockingDisconnect", hRas) EXCEPT !.activeRasConnections = @ \ {hRas}]

RECURSIVE disconnectEach(_, _)
disconnectEach(p, v) ==
    IF v = {} THEN p
    ELSE LET hRas == CHOOSE h \in v : \A other \in v : h <= other
         IN disconnectEach(blockingDisconnect(p, hRas), v \ {hRas})

\* helper->disableDnsLeaksProtection() and helper->removeHosts() when at least one
\* IKEv2 connection is active, nothing otherwise
ReleasesProtection(v) == v # {}

finishIkev2ActiveConnections_win(p) ==
    LET v == p.activeRasConnections
    IN IF ReleasesProtection(v)
       THEN LET p1 == called(disconnectEach(p, v), "helper.disableDnsLeaksProtection", 0)
                p2 == called(p1, "helper.removeHosts", 0)
            IN [p2 EXCEPT !.dnsLeaksProtection = FALSE, !.hostsAdded = FALSE]
       ELSE p

\* the WireGuard executable is killed and the service stopped, whatever is running
finishWireGuardActiveConnections_win(p) ==
    LET p1 == called(p, "helper.executeTaskKill", 0)
        p2 == called(p1, "helper.stopWireGuard", 0)
    IN [p2 EXCEPT !.wireGuardProcess = FALSE, !.wireGuardInstalled = FALSE]

finishAllActiveConnections_win ==
    LET p == finishWireGuardActiveConnections_win(
                 finishIkev2ActiveConnections_win(
                     finishOpenVpnActiveConnections_win(FinishState)))
    IN /\ openVpnProcesses' = p.openVpnProcesses
       /\ activeRasConnections' = p.activeRasConnections
       /\ wireGuardProcess' = p.wireGuardProcess
       /\ hostsAdded' = p.hostsAdded
       /\ dnsLeaksProtection' = p.dnsLeaksProtection
       /\ wireGuardInstalled' = p.wireGuardInstalled
       /\ serviceStatus' = SERVICE_STOPPED
       /\ finishOut' = FinishOut("finishAllActiveConnections", p.trace)
       /\ UNCHANGED <<wgPc, stopRequested_, connectedSignalEmited_, isAutomaticConnectionMode_,
                      exited, callerWaiting, pendingAutomatic, serviceStarted,
                      disableDNSLeakProtection, timeoutArmed, serviceOpen, wgEvents, wgOut,
                      wgIn>>
       /\ UNCHANGED <<failedIkev2Counter_, successConnectionProtocol, policyVars, lastOp,
                      proberVars>>

\* a fresh session: no connection object has run; the platform holds what the earlier
\* run left: processes, RAS connections, the WireGuard service, DNS-leak protection
\* (enabled by an IKEv2 connection or by WireGuardConnection::run after startService)
InitFinish ==
    /\ PolicyAbsent
    /\ ProberConstructed(NoExtraConfig)
    /\ WgIdle
    /\ openVpnProcesses \in SUBSET getAvailableOpenVpnExecutables
    /\ activeRasConnections \in SUBSET (1..MaxRasConnections)
    /\ wireGuardProcess \in BOOLEAN
    /\ hostsAdded \in BOOLEAN
    /\ wireGuardInstalled \in BOOLEAN
    /\ serviceStatus \in IF wireGuardInstalled THEN {SERVICE_RUNNING, SERVICE_STOPPED}
                         ELSE {SERVICE_STOPPED}
    /\ dnsLeaksProtection \in BOOLEAN
    /\ finishOut = FinishOut("none", << >>)

NextFinish == finishAllActiveConnections_win

SpecFinish == InitFinish /\ [][NextFinish]_vars

Finished == finishOut.op = "finishAllActiveConnections"

CalledHelper(name) == \E i \in 1..Len(finishOut.trace) : finishOut.trace[i].name = name

\* C25: after finishAllActiveConnections has returned, DNS-leak protection left by the
\* earlier run is released whichever protocol left it enabled, also when no IKEv2
\* connection is active, and the WireGuard service has been stopped.
C25_ProtectionReleasedAndWireGuardStopped ==
    Finished =>
        /\ ~dnsLeaksProtection
        /\ CalledHelper("helper.stopWireGuard")
        /\ ~wireGuardInstalled



(***************************************************************************)
(* A session that fails until the policy is exhausted.                     *)
(***************************************************************************)
\* every attempt from the start of the plan to its end has been reported as failed
Exhausted ==
    /\ Constructed
    /\ bIsAllFailed_
    /\ PlanLen >= 1
    /\ Len(attempted) = PlanLen

\* the attempts made with the protocol on the node
AttemptsOf(protocol, node) ==
    { i \in 1..Len(attempted) :
        /\ attempted[i].cursor < PlanLen
        /\ attemps_[attempted[i].cursor + 1].protocol = protocol
        /\ attempted[i].node = node }

\* C26: with a node selector that cycles through the nodes of the location, a session
\* in which every attempt fails until the policy is exhausted has attempted every pair
\* of an eligible protocol and a node exactly twice, wherever the remembered protocol
\* stands in the PortMap.
C26_EachPairAttemptedTwice ==
    Exhausted =>
        \A protocol \in PlanProtocols : \A node \in 0..(nodesCount - 1) :
            Cardinality(AttemptsOf(protocol, node)) = 2

\* an exhausted session on two nodes whose remembered protocol is the last eligible
\* entry of the PortMap, so that the node changes after the first entry of each pass
C26_Witness ==
    /\ Exhausted
    /\ nodesCount = 2
    /\ EligibleCount = 3
    /\ attemps_[1].changeNode
    /\ attempted[1].node # attempted[2].node


(***************************************************************************)
(* The override mode of the prober.                                        *)
(***************************************************************************)
\* the first run of a prober whose configuration fixes an attempt count of at least
\* 1, a timeout and a retry delay; not stopped, without a success
OverrideFailingRun ==
    /\ extraConfig.attempts.exists /\ extraConfig.attempts.value >= 1
    /\ extraConfig.timeout.exists
    /\ extraConfig.retryDelay.exists
    /\ starts = 1
    /\ startedSinceStop
    /\ NoSuccessResult

C28_OneResultPerRun ==
    startedSinceStop =>
        /\ Len(runResults) <= 1
        /\ TestsFinished => ~bRunning_
        /\ bRunning_ => curTest_ \in 1..Len(timeouts_)


\* the slots of the timers of run()
TimerCallbacks == {"onGetWireguardStats", "onCheckServiceRunning", "onGetWireguardLogUpdates",
                   "onAutomaticConnectionTimeout"}

C29_WitnessStopped ==
    /\ wgPc = "teardown"
    /\ isAutomaticConnectionMode_
    /\ stopRequested_
    /\ ~InTrace(STATE_TIMEOUT_FOR_AUTOMATIC, wgEvents)
    /\ wgOut.op = "run"


\* C30: in every state of a constructed policy the cursor is an index of the plan,
\* 0 <= curAttempt_ < Len(attemps_), so that putFailedConnection,
\* getCurrentConnectionSettings and saveCurrentSuccessfullConnectionSettings read
\* attemps_[curAttempt_] inside the plan, also when the constructor has filtered out
\* every entry of the PortMap.
C30_CursorInsidePlan ==
    Constructed => (0 <= curAttempt_ /\ curAttempt_ < Len(attemps_))


\* C31: an answer to a probe of an earlier, stopped run never decides the outcome of
\* a later run: whenever the handling of an answer emits a result, the answer is to
\* a probe issued since the last call of startTests.
C31_ResultFromAnswerOfThisRun ==
    (proberOut.op = "onPingTestAnswer" /\ proberOut.emitted # << >>) => proberOut.answer.ofRun


\* C32: within one run no connected event follows an error event of the run, and no
\* step emits connected once a stop of the run has been requested, the final
\* statistics poll after the event loop included.
C32_NoConnectedAfterErrorOrStop ==
    /\ \A i \in 1..Len(wgEvents) : \A j \in 1..Len(wgEvents) :
          (wgEvents[i] \in ErrorEvents /\ i < j) => wgEvents[j] # CONNECTED
    /\ (wgOut.op = "run" /\ InTrace(CONNECTED, wgOut.trace)) => ~stopRequested_


\* the signals of the connection
Signals == ErrorEvents \cup {CONNECTED, DISCONNECTED, STATISTICS_UPDATED}

\* C33: every run emits disconnected exactly once, on every path through run(), as
\* the last event of the run: when the worker ends, the events of the run hold one
\* disconnected and it is the last of them; no event of a run is recorded after its
\* disconnected, in the same step or, the worker having ended, in a later one; a
\* startDisconnect on a running connection emits nothing itself.
C33_DisconnectedOnceAndLast ==
    [][ /\ Occurrences(DISCONNECTED, wgEvents') <= 1
        /\ RunEnded' => wgEvents'[Len(wgEvents')] = DISCONNECTED
        /\ (isRunning /\ ~isRunning') =>
              /\ wgOut'.op = "run"
              /\ Occurrences(DISCONNECTED, wgOut'.trace) = 1
              /\ Occurrences(DISCONNECTED, wgEvents') = 1
        /\ \A i \in 1..Len(wgOut'.trace) : \A j \in 1..Len(wgOut'.trace) :
              (wgOut'.trace[i] = DISCONNECTED /\ i < j) => wgOut'.trace[j] \notin Signals
        /\ ~isRunning =>
              \A i \in 1..Len(wgOut'.trace) : wgOut'.trace[i] \notin Signals \ {DISCONNECTED}
        /\ (wgOut'.op = "startDisconnect" /\ isRunning) => wgOut'.trace = << >> ]_vars

\* a connected run that was stopped has ended: connected, then disconnected
C33_Witness ==
    /\ ~isRunning
    /\ wgOut.op = "run"
    /\ stopRequested_
    /\ wgEvents = <<CONNECTED, DISCONNECTED>>

\* a run has ended on the failure of generateConfigFile
C33_WitnessConfigFailure ==
    /\ ~isRunning
    /\ wgEvents = <<WIREGUARD_CONNECTION_ERROR, DISCONNECTED>>
    /\ InTrace("helper.stopWireGuard", wgOut.trace)


\* C34: at any time at most one probe is outstanding, issued and neither answered
\* nor cancelled, and it is the probe with the latest command id, the one stopTests
\* would cancel.
C34_AtMostOneProbeOutstanding ==
    /\ Cardinality(outstanding) <= 1
    /\ outstanding \subseteq {cmdId_}


(***************************************************************************)
(* The IKEv2 failure counter over the sessions of a process.               *)
(***************************************************************************)
\* C35 as stated: with sessions constructed and used one after another the counter
\* never exceeds MAX_IKEV2_FAILED_ATTEMPTS, and once it has reached the threshold it
\* keeps that value: it is neither incremented nor reset again.
C35_Claimed_CounterStaysAtThreshold ==
    [][ /\ failedIkev2Counter_' <= MAX_IKEV2_FAILED_ATTEMPTS
        /\ failedIkev2Counter_ = MAX_IKEV2_FAILED_ATTEMPTS =>
              failedIkev2Counter_' = MAX_IKEV2_FAILED_ATTEMPTS ]_vars

\* the operation of the step reads attemps_[curAttempt_] inside the plan
ReadsInsidePlan == Constructed => CursorValid

\* C35 amended: with sessions constructed and used one after another, and as long as
\* no operation reads outside an empty plan, the counter never exceeds
\* MAX_IKEV2_FAILED_ATTEMPTS and is not incremented once it has reached the
\* threshold; a plan built at the threshold holds no IKEv2.  The counter leaves the
\* threshold only by being reset to 0, when the session whose plan was built below
\* the threshold records a success of its IKEv2 attempt.
C35_CounterLeavesThresholdOnlyByIkev2Success ==
    [][ (ReadsInsidePlan /\ failedIkev2Counter_ <= MAX_IKEV2_FAILED_ATTEMPTS) =>
          /\ failedIkev2Counter_' <= MAX_IKEV2_FAILED_ATTEMPTS
          /\ (lastOp'.name = "construct" /\ failedIkev2Counter_ = MAX_IKEV2_FAILED_ATTEMPTS)
                => \A k \in 1..Len(attemps_') : attemps_'[k].protocol # IKEV2
          /\ (failedIkev2Counter_ = MAX_IKEV2_FAILED_ATTEMPTS
                /\ failedIkev2Counter_' # failedIkev2Counter_) =>
                /\ failedIkev2Counter_' = 0
                /\ lastOp'.name = "saveCurrentSuccessfullConnectionSettings"
                /\ attemps_[curAttempt_ + 1].protocol = IKEV2
                /\ ctorArgs.counter < MAX_IKEV2_FAILED_ATTEMPTS ]_vars

\* a session has brought the counter to the threshold; its plan still holds IKEv2
C35_Witness ==
    /\ lastOp.name = "putFailedConnection"
    /\ failedIkev2Counter_ = MAX_IKEV2_FAILED_ATTEMPTS
    /\ ctorArgs.counter = MAX_IKEV2_FAILED_ATTEMPTS - 1
    /\ incCount = 1
    /\ IKEV2 \in PlanProtocols

\* a session that incremented the counter has then connected with IKEv2: the counter
\* is back at 0
C35_WitnessReset ==
    /\ lastOp.name = "saveCurrentSuccessfullConnectionSettings"
    /\ ctorArgs.counter = MAX_IKEV2_FAILED_ATTEMPTS - 1
    /\ incCount = 1
    /\ CursorValid
    /\ attemps_[curAttempt_ + 1].protocol = IKEV2
    /\ failedIkev2Counter_ = 0


(***************************************************************************)
(* Where the remembered protocol stands in a pass of the plan.             *)
(***************************************************************************)
\* 0-based index of an eligible protocol in the filtered PortMap order
FilteredIndex(protocol) ==
    LET pos == CHOOSE i \in EligiblePositions : portMap_[i].protocol = protocol
    IN Cardinality({ i \in EligiblePositions : i < pos })

\* 0-based index of an eligible protocol in the first pass of the plan
PlanIndex(protocol) ==
    (CHOOSE k \in 1..EligibleCount : attemps_[k].protocol = protocol) - 1

RememberedEligible == Constructed /\ Remembered \in EligibleProtocols

\* the remembered protocol is the first filtered entry and IKEv2 the second
RememberedFirstBeforeIkev2 ==
    /\ FilteredIndex(Remembered) = 0
    /\ IKEV2 \in EligibleProtocols
    /\ FilteredIndex(IKEV2) = 1

C36_WitnessUnchanged ==
    /\ RememberedEligible
    /\ FilteredIndex(Remembered) = 0
    /\ EligibleCount = 3
    /\ attemps_[2].protocol # IKEV2
    /\ attemps_[1].protocol = Remembered

====
